---- MODULE Spec2Model ----
(***************************************************************************)
(* Model of the onicommerce shopping cart: the cartReducer and             *)
(* calculateCartSummary of the CartContext (src/models/Order.ts, second    *)
(* half), the three effects of CartProvider (summary recomputation,        *)
(* initialization from localStorage, save to localStorage) and the safe    *)
(* wrappers of useCartEnhanced (src/unnamed/part_003).                     *)
(*                                                                         *)
(* Conventions.                                                            *)
(*  - An optional JavaScript value (item.variant, state.shipping,          *)
(*    product.shipping) is a sequence of length 0 (undefined) or 1.        *)
(*  - JavaScript numbers are modelled as exact rationals.  Quantities,     *)
(*    prices, item totals and discount values are integers; the money      *)
(*    fields of the summary are kept in units of 1/Scale so that           *)
(*    value/100 and the 0.08 tax rate stay exact.                          *)
(*  - React commits one render per handled event and flushes the passive   *)
(*    effects of that render before the next event is handled; pc tells    *)
(*    whether the effects of the last committed render are still pending.  *)
(***************************************************************************)
EXTENDS Integers, Sequences, FiniteSets, Bags, TLC

VARIABLES
    state,        \* the CartState held by useReducer (last committed render)
    storage,      \* localStorage[CART_STORAGE_KEY]
    pc,           \* "mount" | "effects" | "idle"
    depsChanged,  \* items/discounts/shipping/isInitialized changed in the last render
    op,           \* the call whose effect cascade is pending (NoOp when quiescent)
    thrown,       \* exception that escaped to the caller of the last call
    added,        \* history, per (productId, variantId): <<sum of the quantities
                  \* passed to addItem, number of calls>> since the pair was
                  \* absent; <<>> when not recorded
    tab2,         \* a CartProvider in a second tab of the same origin:
                  \* [state, pc, depsChanged] as above
    admin,        \* the Admin document in the database
    now,          \* Date.now() of the server, in minutes
    logins,       \* bag of the login requests that await their database write
    response,     \* the last response of the login endpoint
    auth,         \* the AuthState held by useReducer in AuthProvider
    authStorage,  \* the four localStorage keys of AuthProvider
    refreshCall,  \* the refreshAccessToken call whose fetch is pending, if any
    loggedOut,    \* history: logout() has run and no login has succeeded since
    guarded,      \* the last request that met a handler wrapped by lib/auth.ts
    session,      \* the tokens issued to a user at login and by a refresh
    cached,       \* global.mongoose, the cache of connectDB
    promises,     \* the promises mongoose.connect returned, in order
    calls,        \* the connectDB calls suspended at their await
    returned      \* how the last finished connectDB call ended

cartVars == <<state, storage, pc, depsChanged, op, thrown, added, tab2>>

loginVars == <<admin, now, logins, response>>

clientVars == <<auth, authStorage, refreshCall, loggedOut>>

dbVars == <<cached, promises, calls, returned>>

serverVars == <<guarded, session, dbVars>>

authVars == <<loginVars, clientVars, serverVars>>

vars == <<cartVars, authVars>>

----------------------------------------------------------------------------
(* Bounds of the model *)

MaxQty == 2            \* addItem is explored while quantities stay <= MaxQty
MaxAdds == 3           \* recorded addItem calls per (productId, variantId)
MaxStack == 2          \* discounts held at once where stacks of discounts are explored
MaxLogins == 2         \* login requests that await their database write at once
MaxTicks == 2          \* observations of the server clock after the first
MaxMinutes == 40       \* minutes for which a browser session is followed
MaxConnects == 6       \* calls of mongoose.connect
MaxCalls == 4          \* connectDB calls suspended at the same time

----------------------------------------------------------------------------
(* Input domains *)

NoError == "undefined"
NoThrow == "none"

Weight(w) == <<[weight |-> w]>>

\* Omit<CartItem, 'id' | 'total'> payloads handed to addItem, without quantity
Catalog ==
    { [productId |-> "a", variant |-> <<>>, price |-> 20,
       product |-> [shipping |-> Weight(2)]],
      [productId |-> "a", variant |-> <<[id |-> "v", price |-> 2]>>, price |-> 20,
       product |-> [shipping |-> Weight(2)]],
      [productId |-> "a", variant |-> <<[id |-> "v", price |-> 3]>>, price |-> 20,
       product |-> [shipping |-> <<>>]] }

Quantities == {-1, 0, 1, 2}

Payloads ==
    { [productId |-> c.productId, variant |-> c.variant, price |-> c.price,
       product |-> c.product, quantity |-> q] : c \in Catalog, q \in Quantities }

ItemIds == {"a-default", "a-v", "zz"}

NewQuantities == {-1, 0, 1, MaxQty}

\* discounts handed to applyDiscount
Discounts ==
    { [code |-> "SAVE", type |-> "percentage",    value |-> 10],
      [code |-> "SAVE", type |-> "percentage",    value |-> 150],
      [code |-> "SHIP", type |-> "free_shipping", value |-> 1] }

\* discounts handed to applyDiscountSafely
EnteredDiscounts ==
    Discounts \cup { [code |-> "SHIP", type |-> "fixed_amount", value |-> 0],
                     [code |-> "FIX",  type |-> "fixed_amount", value |-> 30] }

Codes == {"SAVE", "SHIP", "NONE"}

\* discounts of every CartDiscount type, each under its own code
StackableDiscounts ==
    { [code |-> "P10",  type |-> "percentage",    value |-> 10],
      [code |-> "P50",  type |-> "percentage",    value |-> 50],
      [code |-> "F5",   type |-> "fixed_amount",  value |-> 5],
      [code |-> "F100", type |-> "fixed_amount",  value |-> 100],
      [code |-> "FREE", type |-> "free_shipping", value |-> 1] }

Shippings == { [method |-> "standard", cost |-> 5, estimatedDays |-> 3] }

----------------------------------------------------------------------------
(* Pure helpers *)

Scale == 100 * 100

\* a || b on numbers
OrElse(a, b) == IF a # 0 THEN a ELSE b

Min(a, b) == IF a <= b THEN a ELSE b

\* item.variant?.id
VariantId(item) == IF item.variant = <<>> THEN <<>> ELSE <<item.variant[1].id>>

\* item.variant?.price || item.price
UnitPriceOf(variant, price) ==
    IF variant = <<>> THEN price ELSE OrElse(variant[1].price, price)

\* Array.prototype.filter
Filter(seq, Keep(_)) == SelectSeq(seq, Keep)

\* Array.prototype.findIndex, 1-based; 0 when no element passes the test
FindIndex(seq, Test(_)) ==
    IF \E i \in 1..Len(seq) : Test(seq[i])
    THEN CHOOSE i \in 1..Len(seq) :
            /\ Test(seq[i])
            /\ \A j \in 1..(i - 1) : ~Test(seq[j])
    ELSE 0

\* Array.prototype.reduce, left to right
Reduce(seq, F(_, _), init) ==
    LET r[i \in 0..Len(seq)] == IF i = 0 THEN init ELSE F(r[i - 1], seq[i])
    IN  r[Len(seq)]

\* obj[key] of a parsed JSON object; a missing key reads as dflt (undefined)
Get(obj, key, dflt) == IF key \in DOMAIN obj THEN obj[key] ELSE dflt

----------------------------------------------------------------------------
(* calculateCartSummary *)

ZeroSummary ==
    [subtotal |-> 0, taxAmount |-> 0, shippingAmount |-> 0, discountAmount |-> 0,
     total |-> 0, itemCount |-> 0, weight |-> 0]

TaxRatePercent == 8

\* variant of ApplyOneDiscount whose fixed amount is not capped by the subtotal
ApplyOneDiscount_Uncapped(subtotal, acc, discount) ==
    CASE discount.type = "percentage" ->
            [acc EXCEPT !.discountAmount = @ + (subtotal * discount.value) \div 100]
      [] discount.type = "fixed_amount" ->
            [acc EXCEPT !.discountAmount = @ + discount.value * Scale]
      [] discount.type = "free_shipping" ->
            [acc EXCEPT !.shippingAmount = 0]
      [] OTHER -> acc

\* one iteration of discounts.forEach; acc = [discountAmount, shippingAmount]
ApplyOneDiscount(subtotal, acc, discount) ==
    CASE discount.type = "percentage" ->
            [acc EXCEPT !.discountAmount = @ + (subtotal * discount.value) \div 100]
      [] discount.type = "fixed_amount" ->
            [acc EXCEPT !.discountAmount = @ + Min(discount.value * Scale, subtotal)]
      [] discount.type = "free_shipping" ->
            [acc EXCEPT !.shippingAmount = 0]
      [] OTHER -> acc

calculateCartSummary(items, discounts, shipping) ==
    LET AddTotal(sum, item) == sum + item.total * Scale
        AddQty(sum, item) == sum + item.quantity
        AddWeight(sum, item) ==
            sum + (IF item.product.shipping = <<>> THEN 0
                   ELSE item.product.shipping[1].weight) * item.quantity
        subtotal == Reduce(items, AddTotal, 0)
        itemCount == Reduce(items, AddQty, 0)
        weight == Reduce(items, AddWeight, 0)
        start == [discountAmount |-> 0,
                  shippingAmount |-> IF shipping = <<>> THEN 0
                                     ELSE shipping[1].cost * Scale]
        Step(acc, d) == ApplyOneDiscount(subtotal, acc, d)
        acc == Reduce(discounts, Step, start)
        taxableAmount == subtotal - acc.discountAmount
        taxAmount == (taxableAmount * TaxRatePercent) \div 100
    IN  [subtotal |-> subtotal,
         taxAmount |-> taxAmount,
         shippingAmount |-> acc.shippingAmount,
         discountAmount |-> acc.discountAmount,
         total |-> taxableAmount + taxAmount + acc.shippingAmount,
         itemCount |-> itemCount,
         weight |-> weight]

----------------------------------------------------------------------------
(* cartReducer *)

initialState ==
    [items |-> <<>>, summary |-> ZeroSummary, discounts |-> <<>>, shipping |-> <<>>,
     isInitialized |-> FALSE, isLoading |-> FALSE, error |-> NoError]

\* { ...action.payload, isInitialized: true }; the payload replaces the state
INITIALIZE_CART(s, payload) ==
    [items |-> payload.items, summary |-> payload.summary,
     discounts |-> payload.discounts,
     shipping |-> IF "shipping" \in DOMAIN payload THEN <<payload.shipping>> ELSE <<>>,
     isInitialized |-> TRUE, isLoading |-> payload.isLoading,
     error |-> Get(payload, "error", NoError)]

SET_LOADING(s, payload) == [s EXCEPT !.isLoading = payload]

SET_ERROR(s, payload) == [s EXCEPT !.error = payload]

\* variant of ADD_ITEM that never merges
ADD_ITEM_AlwaysAppend(s, payload) == [s EXCEPT !.items = Append(s.items, payload)]

\* variant of ADD_ITEM whose merge branch takes the payload quantity as the new quantity
ADD_ITEM_Overwrite(s, payload) ==
    LET Same(item) == /\ item.productId = payload.productId
                      /\ VariantId(item) = VariantId(payload)
        existingItemIndex == FindIndex(s.items, Same)
    IN  IF existingItemIndex >= 1
        THEN [s EXCEPT !.items[existingItemIndex].quantity = payload.quantity,
                       !.items[existingItemIndex].total = payload.total]
        ELSE [s EXCEPT !.items = Append(s.items, payload)]

ADD_ITEM(s, payload) ==
    LET Same(item) == /\ item.productId = payload.productId
                      /\ VariantId(item) = VariantId(payload)
        existingItemIndex == FindIndex(s.items, Same)
        newItems ==
            IF existingItemIndex >= 1
            THEN [index \in 1..Len(s.items) |->
                    IF index = existingItemIndex
                    THEN [s.items[index] EXCEPT
                            !.quantity = @ + payload.quantity,
                            !.total = (s.items[index].quantity + payload.quantity)
                                      * UnitPriceOf(payload.variant, s.items[index].price)]
                    ELSE s.items[index]]
            ELSE Append(s.items, payload)
    IN  [s EXCEPT !.items = newItems]

\* variant of REMOVE_ITEM written with findIndex and splice: a missing id
\* gives index -1, and splice(-1, 1) removes the last element
REMOVE_ITEM_Splice(s, payload) ==
    LET Is(item) == item.id = payload
        index == FindIndex(s.items, Is)
        at == IF index = 0 THEN Len(s.items) ELSE index
    IN  [s EXCEPT !.items = SubSeq(s.items, 1, at - 1)
                            \o SubSeq(s.items, at + 1, Len(s.items))]

REMOVE_ITEM(s, payload) ==
    LET Keep(item) == item.id # payload
    IN  [s EXCEPT !.items = Filter(s.items, Keep)]

\* variant of UPDATE_QUANTITY that removes only below zero
UPDATE_QUANTITY_BelowZero(s, payload) ==
    LET id == payload.id
        quantity == payload.quantity
        Keep(item) == item.id # id
    IN  IF quantity < 0
        THEN [s EXCEPT !.items = Filter(s.items, Keep)]
        ELSE [s EXCEPT !.items =
                [i \in 1..Len(s.items) |->
                    IF s.items[i].id = id
                    THEN [s.items[i] EXCEPT
                            !.quantity = quantity,
                            !.total = quantity
                                      * UnitPriceOf(s.items[i].variant, s.items[i].price)]
                    ELSE s.items[i]]]

UPDATE_QUANTITY(s, payload) ==
    LET id == payload.id
        quantity == payload.quantity
        Keep(item) == item.id # id
    IN  IF quantity <= 0
        THEN [s EXCEPT !.items = Filter(s.items, Keep)]
        ELSE [s EXCEPT !.items =
                [i \in 1..Len(s.items) |->
                    IF s.items[i].id = id
                    THEN [s.items[i] EXCEPT
                            !.quantity = quantity,
                            !.total = quantity
                                      * UnitPriceOf(s.items[i].variant, s.items[i].price)]
                    ELSE s.items[i]]]

\* variant of CLEAR_CART that empties the items only
CLEAR_CART_ItemsOnly(s) == [s EXCEPT !.items = <<>>]

CLEAR_CART(s) == [s EXCEPT !.items = <<>>, !.discounts = <<>>, !.shipping = <<>>]

\* variant of APPLY_DISCOUNT that does not filter the code out first
APPLY_DISCOUNT_Append(s, payload) ==
    [s EXCEPT !.discounts = Append(s.discounts, payload)]

APPLY_DISCOUNT(s, payload) ==
    LET Keep(d) == d.code # payload.code
    IN  [s EXCEPT !.discounts = Append(Filter(s.discounts, Keep), payload)]

REMOVE_DISCOUNT(s, payload) ==
    LET Keep(d) == d.code # payload
    IN  [s EXCEPT !.discounts = Filter(s.discounts, Keep)]

SET_SHIPPING(s, payload) == [s EXCEPT !.shipping = <<payload>>]

CALCULATE_SUMMARY(s) ==
    [s EXCEPT !.summary = calculateCartSummary(s.items, s.discounts, s.shipping)]

----------------------------------------------------------------------------
(* Persistence: localStorage.getItem / JSON.parse / JSON.stringify / setItem *)

\* variant of ToObject that leaves the shipping selection out
ToObject_NoShipping(s) ==
    LET base == [items |-> s.items, summary |-> s.summary, discounts |-> s.discounts,
                 isInitialized |-> s.isInitialized, isLoading |-> s.isLoading]
        err == IF s.error = NoError THEN <<>>
               ELSE [k \in {"error"} |-> s.error]
    IN  base @@ err

\* A JavaScript object as JSON.stringify sees it: keys whose value is
\* undefined (error always, shipping when unset) are left out.  The item,
\* discount and summary values are numbers, strings and plain objects,
\* which stringify and parse reproduce.
ToObject(s) ==
    LET base == [items |-> s.items, summary |-> s.summary, discounts |-> s.discounts,
                 isInitialized |-> s.isInitialized, isLoading |-> s.isLoading]
        ship == IF s.shipping = <<>> THEN <<>>
                ELSE [k \in {"shipping"} |-> s.shipping[1]]
        err == IF s.error = NoError THEN <<>>
               ELSE [k \in {"error"} |-> s.error]
    IN  base @@ ship @@ err

\* localStorage.setItem(CART_STORAGE_KEY, JSON.stringify({...state, error: undefined}))
Saved(s) == [kind |-> "json", value |-> ToObject([s EXCEPT !.error = NoError])]

NullStorage == [kind |-> "null"]
GarbageStorage == [kind |-> "garbage"]

\* a cart written by an earlier session: one "a" without variant, quantity 1
EarlierCart ==
    LET item == [id |-> "a-default", productId |-> "a", variant |-> <<>>,
                 price |-> 20, product |-> [shipping |-> Weight(2)],
                 quantity |-> 1, total |-> 20]
        s0 == [initialState EXCEPT !.items = <<item>>, !.isInitialized = TRUE]
    IN  [s0 EXCEPT !.summary = calculateCartSummary(s0.items, s0.discounts, s0.shipping)]

InitialStorages == {NullStorage, GarbageStorage, Saved(EarlierCart)}

----------------------------------------------------------------------------
(* Lookups *)

Pairs == { <<c.productId, VariantId(c)>> : c \in Catalog }

PairOf(item) == <<item.productId, VariantId(item)>>

HasPair(items, pair) == \E i \in 1..Len(items) : PairOf(items[i]) = pair

HasId(items, id) == \E i \in 1..Len(items) : items[i].id = id

HasCode(discounts, code) == \E i \in 1..Len(discounts) : discounts[i].code = code

\* name of the call, whether it found its target (line item, discount code,
\* previous shipping), and its quantity argument (0 when it has none)
NoOp == [name |-> "none", hit |-> FALSE, quantity |-> 0]

----------------------------------------------------------------------------
(* The Admin model (src/unnamed/part_006) *)

AdminEmail == "admin@shop.com"

Emails == {"", AdminEmail, "nobody@shop.com"}

Passwords == {"", "right", "wrong"}

\* request bodies sent to the login endpoint, and whether the database can
\* be reached while the request is handled
LoginRequests ==
    { [email |-> AdminEmail,        password |-> "right", dbUp |-> TRUE],
      [email |-> AdminEmail,        password |-> "wrong", dbUp |-> TRUE],
      [email |-> AdminEmail,        password |-> "",      dbUp |-> TRUE],
      [email |-> "",                password |-> "right", dbUp |-> TRUE],
      [email |-> "nobody@shop.com", password |-> "right", dbUp |-> TRUE],
      [email |-> AdminEmail,        password |-> "right", dbUp |-> FALSE] }

\* bcrypt.hash, up to the salt
Hash(password) == <<"bcrypt", password>>

\* an Admin document; lockUntil and lastLogin are optional, loginAttempts
\* reads as its default 0 when the field is not stored
AdminDocument(role, permissions, isActive) ==
    [_id |-> "a1", email |-> AdminEmail, password |-> Hash("right"),
     role |-> role, permissions |-> permissions, isActive |-> isActive,
     loginAttempts |-> 0, lockUntil |-> <<>>, lastLogin |-> <<>>]

comparePassword(doc, candidatePassword) == Hash(candidatePassword) = doc.password

isLocked(doc, t) == doc.lockUntil # <<>> /\ doc.lockUntil[1] > t

MaxLoginAttempts == 5

LockDuration == 2 * 60

\* this.updateOne(...) of incrementLoginAttempts: `doc` is the document the
\* request loaded, `db` the stored one, which $inc, $set and $unset update
incrementLoginAttempts(db, doc, t) ==
    IF doc.lockUntil # <<>> /\ doc.lockUntil[1] < t
    THEN [db EXCEPT !.lockUntil = <<>>, !.loginAttempts = 1]
    ELSE LET inc == [db EXCEPT !.loginAttempts = @ + 1]
         IN  IF doc.loginAttempts + 1 >= MaxLoginAttempts /\ ~isLocked(doc, t)
             THEN [inc EXCEPT !.lockUntil = <<t + LockDuration>>]
             ELSE inc

resetLoginAttempts(db) == [db EXCEPT !.loginAttempts = 0, !.lockUntil = <<>>]

----------------------------------------------------------------------------
(* Tokens (src/lib/auth.ts) *)

AccessTokenMinutes == 15

RefreshTokenMinutes == 7 * 24 * 60

\* jwt.sign(payload, secret, {expiresIn}) at time t; the signature is
\* represented by the secret it was made with
Sign(payload, secret, t, minutes) ==
    [payload |-> payload, secret |-> secret, iat |-> t, exp |-> t + minutes]

generateAccessToken(payload, t) == Sign(payload, "access", t, AccessTokenMinutes)

generateRefreshToken(payload, t) == Sign(payload, "refresh", t, RefreshTokenMinutes)

generateTokenPair(user, t) ==
    [accessToken |-> generateAccessToken(
        [id |-> user._id, email |-> user.email, role |-> user.role,
         permissions |-> user.permissions], t),
     refreshToken |-> generateRefreshToken([id |-> user._id, email |-> user.email], t)]

\* jwt.verify with the access token secret at time t
verifyAccessToken(token, t) ==
    IF token.secret # "access" THEN [valid |-> FALSE, expired |-> FALSE]
    ELSE IF t >= token.exp THEN [valid |-> FALSE, expired |-> TRUE]
    ELSE [valid |-> TRUE, expired |-> FALSE]

\* jwt.verify with the refresh token secret at time t
verifyRefreshToken(token, t) ==
    IF token.secret # "refresh" THEN [valid |-> FALSE, expired |-> FALSE]
    ELSE IF t >= token.exp THEN [valid |-> FALSE, expired |-> TRUE]
    ELSE [valid |-> TRUE, expired |-> FALSE]

\* null (the empty sequence) for a refresh token that does not verify; the new
\* payload takes id and email from the token and a fixed role and permissions
refreshAccessToken(refreshToken, t) ==
    IF ~verifyRefreshToken(refreshToken, t).valid THEN <<>>
    ELSE <<generateAccessToken(
                [id |-> refreshToken.payload.id, email |-> refreshToken.payload.email,
                 role |-> "admin", permissions |-> <<>>], t)>>

\* the user object leaves the password out
createAuthResponse(user, t) ==
    [user |-> [_id |-> user._id, email |-> user.email, role |-> user.role,
               permissions |-> user.permissions, isActive |-> user.isActive,
               lastLogin |-> user.lastLogin],
     tokens |-> generateTokenPair(user, t)]

----------------------------------------------------------------------------
(* The middleware of src/lib/auth.ts *)

\* An Authorization header is a sequence of pieces: a space, a word, or a
\* token; no header at all is the empty sequence.
Space == [kind |-> "space"]

Word(text) == [kind |-> "word", text |-> text]

Jwt(token) == [kind |-> "jwt", token |-> token]

\* authHeader.split(' '): the parts between the spaces, each a sequence of
\* pieces (the empty string is the empty sequence)
RECURSIVE SplitOnSpace(_)
SplitOnSpace(header) ==
    IF header = <<>> THEN << <<>> >>
    ELSE LET rest == SplitOnSpace(Tail(header))
         IN  IF Head(header).kind = "space"
             THEN << <<>> >> \o rest
             ELSE << <<Head(header)>> \o rest[1] >> \o Tail(rest)

\* variant of extractTokenFromHeader that accepts any scheme
extractTokenFromHeader_AnyScheme(authHeader) ==
    IF authHeader = <<>> THEN <<>>
    ELSE LET parts == SplitOnSpace(authHeader)
         IN  IF Len(parts) # 2 THEN <<>> ELSE parts[2]

\* null is the empty sequence, which is as falsy as the empty string
extractTokenFromHeader(authHeader) ==
    IF authHeader = <<>> THEN <<>>
    ELSE LET parts == SplitOnSpace(authHeader)
         IN  IF Len(parts) # 2 \/ parts[1] # <<Word("Bearer")>> THEN <<>> ELSE parts[2]

hasPermission(userPermissions, requiredPermission) ==
    \/ \E i \in DOMAIN userPermissions : userPermissions[i] = requiredPermission
    \/ \E i \in DOMAIN userPermissions : userPermissions[i] = "admin_write"
    \/ \E i \in DOMAIN userPermissions : userPermissions[i] = "admin_read"

\* roleHierarchy has no entry for any other role: its lookup is undefined
roleHierarchy(role) ==
    IF role = "user" THEN <<0>>
    ELSE IF role = "admin" THEN <<1>>
    ELSE IF role = "moderator" THEN <<2>>
    ELSE <<>>

\* a comparison with undefined is false
hasRole(userRole, requiredRole) ==
    /\ roleHierarchy(userRole) # <<>>
    /\ roleHierarchy(requiredRole) # <<>>
    /\ roleHierarchy(userRole)[1] >= roleHierarchy(requiredRole)[1]

NotGuarded == [wrapper |-> "none", required |-> "", header |-> <<>>, at |-> 0,
               status |-> 0, invoked |-> 0, user |-> <<>>]

\* the function requireAuth returns, applied at time t to a request with this
\* header: answers 401 or calls inner(user), which yields the status set by
\* the wrapped function (0 for none) and the number of calls of the handler
Guard(wrapper, required, header, t, Inner(_)) ==
    LET token == extractTokenFromHeader(header)
        isJwt == Len(token) = 1 /\ token[1].kind = "jwt"
        base  == [wrapper |-> wrapper, required |-> required, header |-> header,
                  at |-> t, status |-> 401, invoked |-> 0, user |-> <<>>]
    IN  IF token = <<>> THEN base
        ELSE IF ~isJwt THEN base
        ELSE IF ~verifyAccessToken(token[1].token, t).valid THEN base
        ELSE LET user == token[1].token.payload
                 out  == Inner(user)
             IN  [base EXCEPT !.status = out.status, !.invoked = out.invoked,
                              !.user = <<user>>]

Handled == [status |-> 0, invoked |-> 1]

Forbidden == [status |-> 403, invoked |-> 0]

----------------------------------------------------------------------------
(* authReducer and the storage helpers of AuthProvider (src/models/Order.ts) *)

SessionTimeoutMinutes == 30

authInitialState ==
    [user |-> <<>>, isAuthenticated |-> FALSE, isLoading |-> TRUE, error |-> NoError,
     tokens |-> [accessToken |-> <<>>, refreshToken |-> <<>>],
     lastActivity |-> <<>>, sessionTimeout |-> SessionTimeoutMinutes]

AUTH_SET_LOADING(s, payload) == [s EXCEPT !.isLoading = payload]

\* lastActivity: new Date() is taken when the action is reduced, at time t
AUTH_LOGIN_SUCCESS(s, payload, t) ==
    [s EXCEPT !.user = <<payload.user>>, !.isAuthenticated = TRUE, !.isLoading = FALSE,
              !.tokens = [accessToken |-> <<payload.tokens.accessToken>>,
                          refreshToken |-> <<payload.tokens.refreshToken>>],
              !.error = NoError, !.lastActivity = <<t>>]

AUTH_LOGOUT(s) ==
    [s EXCEPT !.user = <<>>, !.isAuthenticated = FALSE, !.isLoading = FALSE,
              !.tokens = [accessToken |-> <<>>, refreshToken |-> <<>>],
              !.lastActivity = <<>>, !.error = NoError]

AUTH_SESSION_TIMEOUT(s) ==
    [s EXCEPT !.user = <<>>, !.isAuthenticated = FALSE, !.isLoading = FALSE,
              !.tokens = [accessToken |-> <<>>, refreshToken |-> <<>>],
              !.lastActivity = <<>>,
              !.error = "Session expired. Please log in again."]

AUTH_REFRESH_TOKEN_SUCCESS(s, payload) ==
    [s EXCEPT !.tokens.accessToken = <<payload.accessToken>>, !.error = NoError]

AUTH_SET_ACTIVITY(s, payload) == [s EXCEPT !.lastActivity = <<payload>>]

EmptyAuthStorage ==
    [accessToken |-> <<>>, refreshToken |-> <<>>, userData |-> <<>>,
     lastActivity |-> <<>>]

\* null unless both tokens are stored
getStoredTokens(st) ==
    IF st.accessToken # <<>> /\ st.refreshToken # <<>>
    THEN <<[accessToken |-> st.accessToken[1], refreshToken |-> st.refreshToken[1]]>>
    ELSE <<>>

clearStoredTokens(st) == EmptyAuthStorage

NoSession == [user |-> <<>>, issued |-> <<>>, refreshed |-> <<>>]

NothingCached == [conn |-> <<>>, promise |-> <<>>]

NotReturned == [kind |-> "none", conn |-> <<>>]

ServerQuiet ==
    /\ guarded = NotGuarded
    /\ session = NoSession
    /\ cached = NothingCached
    /\ promises = <<>>
    /\ calls = EmptyBag
    /\ returned = NotReturned

ClientQuiet ==
    /\ auth = authInitialState
    /\ authStorage = EmptyAuthStorage
    /\ refreshCall = <<>>
    /\ loggedOut = FALSE

----------------------------------------------------------------------------
(* POST /api/auth/login (src/app/api/auth/login/route.ts) *)

NoResponse == [status |-> 0, success |-> FALSE, data |-> <<>>]

\* NextResponse.json({success, data | error}, {status})
Respond(status, data) ==
    response' = [status |-> status, success |-> status = 200, data |-> data]

LoginQuiet ==
    /\ admin = AdminDocument("super_admin", <<"product_read">>, TRUE)
    /\ now = 0
    /\ logins = EmptyBag
    /\ response = NoResponse

AuthQuiet == LoginQuiet /\ ClientQuiet /\ ServerQuiet

\* the document a request holds; the lastLogin it loaded is assigned before
\* it is read and so is not kept
Loaded(doc) == [doc EXCEPT !.lastLogin = <<>>]

\* variant of LoginReceive that does not test isActive
LoginReceive_NoActiveCheck(email, password, dbUp) ==
    /\ IF ~dbUp THEN Respond(500, <<>>) /\ UNCHANGED logins
       ELSE IF email = "" \/ password = ""
            THEN Respond(400, <<>>) /\ UNCHANGED logins
       ELSE IF email # admin.email
            THEN Respond(401, <<>>) /\ UNCHANGED logins
       ELSE IF isLocked(admin, now)
            THEN Respond(423, <<>>) /\ UNCHANGED logins
       ELSE /\ BagCardinality(logins) < MaxLogins
            /\ logins' = logins (+) SetToBag({[password |-> password,
                                               doc |-> Loaded(admin)]})
            /\ UNCHANGED response
    /\ UNCHANGED <<admin, now, cartVars, clientVars, serverVars>>

\* The handler up to its first database write: connectDB, request.json, the
\* field check, findByEmailWithPassword, isLocked, isActive.  A request that
\* passes holds the document it loaded while comparePassword is awaited.
LoginReceive(email, password, dbUp) ==
    /\ IF ~dbUp THEN Respond(500, <<>>) /\ UNCHANGED logins
       ELSE IF email = "" \/ password = ""
            THEN Respond(400, <<>>) /\ UNCHANGED logins
       ELSE IF email # admin.email
            THEN Respond(401, <<>>) /\ UNCHANGED logins
       ELSE IF isLocked(admin, now)
            THEN Respond(423, <<>>) /\ UNCHANGED logins
       ELSE IF ~admin.isActive
            THEN Respond(401, <<>>) /\ UNCHANGED logins
       ELSE /\ BagCardinality(logins) < MaxLogins
            /\ logins' = logins (+) SetToBag({[password |-> password,
                                               doc |-> Loaded(admin)]})
            /\ UNCHANGED response
    /\ UNCHANGED <<admin, now, cartVars, clientVars, serverVars>>

\* The rest of the handler: incrementLoginAttempts and 401 when the password
\* does not compare; else resetLoginAttempts, save of lastLogin and the
\* token pair made from the loaded document.
LoginComplete(login) ==
    /\ BagIn(login, logins)
    /\ logins' = logins (-) SetToBag({login})
    /\ IF ~comparePassword(login.doc, login.password)
       THEN /\ admin' = incrementLoginAttempts(admin, login.doc, now)
            /\ Respond(401, <<>>)
       ELSE /\ admin' = [resetLoginAttempts(admin) EXCEPT !.lastLogin = <<now>>]
            /\ Respond(200,
                       <<createAuthResponse([login.doc EXCEPT !.lastLogin = <<now>>], now)>>)
    /\ UNCHANGED <<now, cartVars, clientVars, serverVars>>

\* the server clock, observed every 90 minutes
Tick ==
    /\ now < MaxTicks * 90
    /\ now' = now + 90
    /\ UNCHANGED <<admin, logins, response, cartVars, clientVars, serverVars>>

InitLogin ==
    /\ state = initialState
    /\ storage = NullStorage
    /\ pc = "mount"
    /\ depsChanged = FALSE
    /\ op = NoOp
    /\ thrown = NoThrow
    /\ added = [pair \in Pairs |-> <<>>]
    /\ tab2 = [state |-> initialState, pc |-> "mount", depsChanged |-> FALSE]
    /\ \E isActive \in BOOLEAN :
            admin = AdminDocument("super_admin", <<"product_read">>, isActive)
    /\ now = 0
    /\ logins = EmptyBag
    /\ response = NoResponse
    /\ ClientQuiet
    /\ ServerQuiet

NextLogin ==
    \/ \E request \in LoginRequests :
            LoginReceive(request.email, request.password, request.dbUp)
    \/ \E login \in BagToSet(logins) : LoginComplete(login)
    \/ Tick

SpecLogin == InitLogin /\ [][NextLogin]_vars

----------------------------------------------------------------------------
(* AuthProvider in the browser (src/models/Order.ts) *)

\* what an earlier visit left in localStorage: nothing, a session stored at
\* time 0, or its tokens without the user data
StoredSessions ==
    LET earlier == createAuthResponse(
                        AdminDocument("super_admin", <<"product_read">>, TRUE), 0)
        tokens  == [EmptyAuthStorage EXCEPT
                        !.accessToken = <<earlier.tokens.accessToken>>,
                        !.refreshToken = <<earlier.tokens.refreshToken>>]
    IN  {EmptyAuthStorage, tokens, [tokens EXCEPT !.userData = <<earlier.user>>]}

InitClient ==
    /\ state = initialState
    /\ storage = NullStorage
    /\ pc = "mount"
    /\ depsChanged = FALSE
    /\ op = NoOp
    /\ thrown = NoThrow
    /\ added = [pair \in Pairs |-> <<>>]
    /\ tab2 = [state |-> initialState, pc |-> "mount", depsChanged |-> FALSE]
    /\ LoginQuiet
    /\ auth = authInitialState
    /\ authStorage \in StoredSessions
    /\ refreshCall = <<>>
    /\ loggedOut = FALSE
    /\ ServerQuiet

\* the initializeAuth effect; it runs once, while isLoading still has its
\* initial value. With an expired access token it awaits refreshAccessToken.
AuthMount ==
    /\ auth.isLoading
    /\ refreshCall = <<>>
    /\ LET storedTokens == getStoredTokens(authStorage)
           verification == verifyAccessToken(storedTokens[1].accessToken, now)
       IN  IF storedTokens = <<>>
           THEN /\ auth' = AUTH_SET_LOADING(auth, FALSE)
                /\ UNCHANGED <<authStorage, refreshCall, loggedOut>>
           ELSE IF verification.valid /\ authStorage.userData # <<>>
           THEN /\ auth' = AUTH_SET_LOADING(
                                AUTH_LOGIN_SUCCESS(auth,
                                    [user |-> authStorage.userData[1],
                                     tokens |-> storedTokens[1]], now), FALSE)
                /\ loggedOut' = FALSE
                /\ UNCHANGED <<authStorage, refreshCall>>
           ELSE IF ~verification.valid /\ verification.expired
           THEN /\ refreshCall' = <<[refreshToken |-> storedTokens[1].refreshToken,
                                     initializing |-> TRUE]>>
                /\ UNCHANGED <<auth, authStorage, loggedOut>>
           ELSE /\ authStorage' = clearStoredTokens(authStorage)
                /\ auth' = AUTH_SET_LOADING(auth, FALSE)
                /\ UNCHANGED <<refreshCall, loggedOut>>
    /\ UNCHANGED <<cartVars, loginVars, serverVars>>

\* ten minutes pass in the browser
Elapse ==
    /\ now < MaxMinutes
    /\ now' = now + 10
    /\ UNCHANGED <<admin, logins, response, cartVars, clientVars, serverVars>>

\* updateActivity, the listener of the activity events
Activity ==
    /\ auth.isAuthenticated
    /\ auth' = AUTH_SET_ACTIVITY(auth, now)
    /\ authStorage' = [authStorage EXCEPT !.lastActivity = <<now>>]
    /\ UNCHANGED <<refreshCall, loggedOut, cartVars, loginVars, serverVars>>

\* variant of SessionCheck that leaves localStorage as it is
SessionCheck_NoClear ==
    /\ auth.isAuthenticated
    /\ auth.lastActivity # <<>>
    /\ now - auth.lastActivity[1] > auth.sessionTimeout
    /\ auth' = AUTH_SESSION_TIMEOUT(auth)
    /\ UNCHANGED <<authStorage, refreshCall, loggedOut, cartVars, loginVars, serverVars>>

\* checkSessionTimeout, the callback of the interval that the session timeout
\* effect keeps while the state is authenticated; a call before the timeout
\* has passed changes nothing
SessionCheck ==
    /\ auth.isAuthenticated
    /\ auth.lastActivity # <<>>
    /\ now - auth.lastActivity[1] > auth.sessionTimeout
    /\ auth' = AUTH_SESSION_TIMEOUT(auth)
    /\ authStorage' = clearStoredTokens(authStorage)
    /\ UNCHANGED <<refreshCall, loggedOut, cartVars, loginVars, serverVars>>

\* logout(): the request to the server is not awaited for its result; the
\* finally block clears the storage and dispatches LOGOUT
Logout ==
    /\ auth.isAuthenticated
    /\ authStorage' = clearStoredTokens(authStorage)
    /\ auth' = AUTH_LOGOUT(auth)
    /\ loggedOut' = TRUE
    /\ UNCHANGED <<refreshCall, cartVars, loginVars, serverVars>>

\* refreshAccessToken() up to its fetch; without stored tokens it throws, and
\* its catch block calls logout()
RefreshStart ==
    /\ ~auth.isLoading
    /\ refreshCall = <<>>
    /\ LET tokens == getStoredTokens(authStorage)
       IN  IF tokens = <<>>
           THEN /\ authStorage' = clearStoredTokens(authStorage)
                /\ auth' = AUTH_LOGOUT(auth)
                /\ loggedOut' = TRUE
                /\ UNCHANGED refreshCall
           ELSE /\ refreshCall' = <<[refreshToken |-> tokens[1].refreshToken,
                                     initializing |-> FALSE]>>
                /\ UNCHANGED <<auth, authStorage, loggedOut>>
    /\ UNCHANGED <<cartVars, loginVars, serverVars>>

\* refreshAccessToken() from the answer of its fetch on: a token in the answer
\* is dispatched and stored, anything else ends in logout(). The token in an
\* answer is the one refreshAccessToken of lib/auth.ts makes from the refresh
\* token that was sent. A call awaited by initializeAuth ends with the finally
\* block of initializeAuth.
RefreshComplete(ok) ==
    /\ refreshCall # <<>>
    /\ LET call     == refreshCall[1]
           answer   == refreshAccessToken(call.refreshToken, now)
           finished(s) == IF call.initializing THEN AUTH_SET_LOADING(s, FALSE) ELSE s
       IN  IF ok /\ answer # <<>>
           THEN /\ auth' = finished(AUTH_REFRESH_TOKEN_SUCCESS(auth,
                                        [accessToken |-> answer[1]]))
                /\ authStorage' = [authStorage EXCEPT !.accessToken = answer]
                /\ UNCHANGED loggedOut
           ELSE /\ authStorage' = clearStoredTokens(authStorage)
                /\ auth' = finished(AUTH_LOGOUT(auth))
                /\ loggedOut' = TRUE
    /\ refreshCall' = <<>>
    /\ UNCHANGED <<cartVars, loginVars, serverVars>>

NextClient ==
    \/ AuthMount
    \/ Elapse
    \/ Activity
    \/ SessionCheck
    \/ Logout
    \/ RefreshStart
    \/ \E ok \in BOOLEAN : RefreshComplete(ok)

SpecClient == InitClient /\ [][NextClient]_vars

\* the interval of the session timeout effect fires every minute for as long
\* as the state is authenticated
SpecClientFair == SpecClient /\ WF_vars(SessionCheck)

----------------------------------------------------------------------------
(* Requests to handlers wrapped by requireAuth, requirePermission, requireRole *)

GuardUser(role, permissions) ==
    [id |-> "a1", email |-> AdminEmail, role |-> role, permissions |-> permissions]

\* tokens made at time 0: access tokens of three users, a refresh token, and
\* an access token signed with another secret
GuardTokens ==
    {generateAccessToken(GuardUser("admin", <<"product_read">>), 0),
     generateAccessToken(GuardUser("moderator", <<"admin_read">>), 0),
     generateAccessToken(GuardUser("super_admin", <<>>), 0),
     generateRefreshToken([id |-> "a1", email |-> AdminEmail], 0),
     [generateAccessToken(GuardUser("admin", <<"product_read">>), 0)
        EXCEPT !.secret = "forged"]}

AuthorizationHeaders ==
    {<<>>, <<Word("Bearer"), Space>>, <<Word("Bearer"), Space, Word("abc")>>}
    \cup {<<Word("Bearer"), Space, Jwt(token)>> : token \in GuardTokens}
    \cup {<<Word(scheme), Space,
            Jwt(generateAccessToken(GuardUser("admin", <<"product_read">>), 0))>> :
            scheme \in {"Basic", "bearer"}}
    \cup {<<Jwt(generateAccessToken(GuardUser("admin", <<"product_read">>), 0))>>,
          <<Word("Bearer"), Space, Space,
            Jwt(generateAccessToken(GuardUser("admin", <<"product_read">>), 0))>>}

RequiredPermissions == {"product_read", "product_write"}

RequiredRoles == {"user", "admin", "moderator"}

requireAuth(header) ==
    /\ guarded' = Guard("requireAuth", "", header, now, LAMBDA user : Handled)
    /\ UNCHANGED <<session, dbVars, cartVars, loginVars, clientVars>>

requirePermission(permission, header) ==
    /\ guarded' = Guard("requirePermission", permission, header, now,
                        LAMBDA user : IF ~hasPermission(user.permissions, permission)
                                      THEN Forbidden ELSE Handled)
    /\ UNCHANGED <<session, dbVars, cartVars, loginVars, clientVars>>

requireRole(role, header) ==
    /\ guarded' = Guard("requireRole", role, header, now,
                        LAMBDA user : IF ~hasRole(user.role, role)
                                      THEN Forbidden ELSE Handled)
    /\ UNCHANGED <<session, dbVars, cartVars, loginVars, clientVars>>

NextGuard ==
    \/ \E header \in AuthorizationHeaders : requireAuth(header)
    \/ \E header \in AuthorizationHeaders, permission \in RequiredPermissions :
            requirePermission(permission, header)
    \/ \E header \in AuthorizationHeaders, role \in RequiredRoles :
            requireRole(role, header)
    \/ Elapse

InitGuard ==
    /\ state = initialState
    /\ storage = NullStorage
    /\ pc = "mount"
    /\ depsChanged = FALSE
    /\ op = NoOp
    /\ thrown = NoThrow
    /\ added = [pair \in Pairs |-> <<>>]
    /\ tab2 = [state |-> initialState, pc |-> "mount", depsChanged |-> FALSE]
    /\ AuthQuiet

SpecGuard == InitGuard /\ [][NextGuard]_vars

----------------------------------------------------------------------------
(* Token pairs and their refresh (src/lib/auth.ts) *)

AdminRoles == {"super_admin", "admin", "moderator"}

AdminPermissions == {<<>>, <<"product_read">>, <<"product_read", "admin_write">>}

\* generateTokenPair for a user, as createAuthResponse calls it at login
IssueTokens(role, permissions) ==
    /\ LET user == AdminDocument(role, permissions, TRUE)
       IN  session' = [user |-> <<user>>, issued |-> <<generateTokenPair(user, now)>>,
                       refreshed |-> <<>>]
    /\ UNCHANGED <<guarded, dbVars, cartVars, loginVars, clientVars>>

\* refreshAccessToken with the refresh token of the pair
RefreshTokens ==
    /\ session.issued # <<>>
    /\ session' = [session EXCEPT
                    !.refreshed = refreshAccessToken(session.issued[1].refreshToken, now)]
    /\ UNCHANGED <<guarded, dbVars, cartVars, loginVars, clientVars>>

NextRefresh ==
    \/ \E role \in AdminRoles, permissions \in AdminPermissions :
            IssueTokens(role, permissions)
    \/ RefreshTokens
    \/ Elapse

SpecRefresh == InitGuard /\ [][NextRefresh]_vars

----------------------------------------------------------------------------
(* connectDB (src/unnamed/part_002) *)

\* A promise is named by its position in promises; the connection it resolves
\* to carries the same number. The continuations of the calls that await a
\* settled promise run as microtasks, before the server takes up anything else.
Resumable(call) == promises[call.awaits] # "pending"

Drained == \A call \in BagToSet(calls) : ~Resumable(call)

\* connectDB() up to its early return or its await
ConnectCall ==
    /\ Drained
    /\ IF cached.conn # <<>>
       THEN /\ returned' = [kind |-> "cached", conn |-> cached.conn]
            /\ UNCHANGED <<cached, promises, calls>>
       ELSE /\ BagCardinality(calls) < MaxCalls
            /\ IF cached.promise = <<>>
               THEN /\ Len(promises) < MaxConnects
                    /\ promises' = Append(promises, "pending")
                    /\ cached' = [cached EXCEPT !.promise = <<Len(promises) + 1>>]
                    /\ calls' = calls (+) SetToBag({[awaits |-> Len(promises) + 1]})
               ELSE /\ calls' = calls (+) SetToBag({[awaits |-> cached.promise[1]]})
                    /\ UNCHANGED <<cached, promises>>
            /\ UNCHANGED returned
    /\ UNCHANGED <<guarded, session, cartVars, loginVars, clientVars>>

\* mongoose.connect succeeds or fails
Settle(id, ok) ==
    /\ promises[id] = "pending"
    /\ promises' = [promises EXCEPT ![id] = IF ok THEN "fulfilled" ELSE "rejected"]
    /\ UNCHANGED <<cached, calls, returned, guarded, session, cartVars, loginVars,
                   clientVars>>

\* variant of Resume whose catch block leaves cached.promise as it is
Resume_NoReset(call) ==
    /\ BagIn(call, calls)
    /\ Resumable(call)
    /\ IF promises[call.awaits] = "fulfilled"
       THEN /\ cached' = [cached EXCEPT !.conn = <<call.awaits>>]
            /\ returned' = [kind |-> "connected", conn |-> <<call.awaits>>]
       ELSE /\ UNCHANGED cached
            /\ returned' = [kind |-> "thrown", conn |-> <<>>]
    /\ calls' = calls (-) SetToBag({call})
    /\ UNCHANGED <<promises, guarded, session, cartVars, loginVars, clientVars>>

\* connectDB() from its await on: the connection is cached and returned, or
\* the catch block resets cached.promise and throws
Resume(call) ==
    /\ BagIn(call, calls)
    /\ Resumable(call)
    /\ IF promises[call.awaits] = "fulfilled"
       THEN /\ cached' = [cached EXCEPT !.conn = <<call.awaits>>]
            /\ returned' = [kind |-> "connected", conn |-> <<call.awaits>>]
       ELSE /\ cached' = [cached EXCEPT !.promise = <<>>]
            /\ returned' = [kind |-> "thrown", conn |-> <<>>]
    /\ calls' = calls (-) SetToBag({call})
    /\ UNCHANGED <<promises, guarded, session, cartVars, loginVars, clientVars>>

NextConnect ==
    \/ ConnectCall
    \/ \E id \in DOMAIN promises, ok \in BOOLEAN : Settle(id, ok)
    \/ \E call \in BagToSet(calls) : Resume(call)

SpecConnect == InitGuard /\ [][NextConnect]_vars

----------------------------------------------------------------------------
(* Initial state and the effects of CartProvider *)

Init ==
    /\ state = initialState
    /\ storage \in InitialStorages
    /\ pc = "mount"
    /\ depsChanged = FALSE
    /\ op = NoOp
    /\ thrown = NoThrow
    /\ added = [pair \in Pairs |-> <<>>]
    /\ tab2 = [state |-> initialState, pc |-> "mount", depsChanged |-> FALSE]
    /\ AuthQuiet

\* variant of Mount without the catch block: a JSON.parse failure leaves the
\* provider uninitialized and the error escapes the effect
Mount_NoCatch ==
    /\ pc = "mount"
    /\ state' = IF storage.kind = "garbage"
                THEN SET_LOADING(SET_LOADING(state, TRUE), FALSE)
                ELSE SET_LOADING(INITIALIZE_CART(SET_LOADING(state, TRUE),
                        IF storage.kind = "json" THEN storage.value
                        ELSE ToObject(initialState)), FALSE)
    /\ pc' = "effects"
    /\ depsChanged' = TRUE
    /\ op' = [name |-> "mount", hit |-> storage.kind = "json", quantity |-> 0]
    /\ thrown' = IF storage.kind = "garbage" THEN "SyntaxError" ELSE thrown
    /\ UNCHANGED <<storage, added, tab2, authVars>>

\* variant of Mount whose save effect does not test isInitialized
Mount_SaveUnguarded ==
    /\ pc = "mount"
    /\ LET payload == IF storage.kind = "json" THEN storage.value
                      ELSE ToObject(initialState)
           s1 == SET_LOADING(state, TRUE)
           s2 == INITIALIZE_CART(s1, payload)
       IN  state' = SET_LOADING(s2, FALSE)
    /\ storage' = Saved(state)
    /\ pc' = "effects"
    /\ depsChanged' = TRUE
    /\ op' = [name |-> "mount", hit |-> storage.kind = "json", quantity |-> 0]
    /\ UNCHANGED <<thrown, added, tab2, authVars>>

\* First commit.  The summary effect and the save effect see
\* isInitialized = false and do nothing; the initialize effect dispatches
\* SET_LOADING(true), INITIALIZE_CART and SET_LOADING(false), which are
\* reduced in order for the next render.
Mount ==
    /\ pc = "mount"
    /\ LET payload == IF storage.kind = "json" THEN storage.value
                      ELSE ToObject(initialState)
           s1 == SET_LOADING(state, TRUE)
           s2 == INITIALIZE_CART(s1, payload)
       IN  state' = SET_LOADING(s2, FALSE)
    /\ pc' = "effects"
    /\ depsChanged' = TRUE
    /\ storage' = IF state.isInitialized THEN Saved(state) ELSE storage
    /\ op' = [name |-> "mount", hit |-> storage.kind = "json", quantity |-> 0]
    /\ UNCHANGED <<thrown, added, tab2, authVars>>

\* variant of FlushEffects whose summary effect also depends on state.summary:
\* every recomputation makes a new summary object and runs the effect again
FlushEffects_SummaryInDeps ==
    /\ pc = "effects"
    /\ LET recompute == depsChanged /\ state.isInitialized
       IN  /\ storage' = IF state.isInitialized THEN Saved(state) ELSE storage
           /\ state' = IF recompute THEN CALCULATE_SUMMARY(state) ELSE state
           /\ pc' = IF recompute THEN "effects" ELSE "idle"
           /\ op' = IF recompute THEN op ELSE NoOp
           /\ depsChanged' = recompute
    /\ UNCHANGED <<thrown, added, tab2, authVars>>

\* Passive effects of a committed render, in declaration order: the summary
\* effect dispatches CALCULATE_SUMMARY when one of its dependencies changed,
\* the save effect writes the state of this render; the dispatched action is
\* reduced afterwards and gives the next render.
FlushEffects ==
    /\ pc = "effects"
    /\ LET recompute == depsChanged /\ state.isInitialized
       IN  /\ storage' = IF state.isInitialized THEN Saved(state) ELSE storage
           /\ state' = IF recompute THEN CALCULATE_SUMMARY(state) ELSE state
           /\ pc' = IF recompute THEN "effects" ELSE "idle"
           /\ op' = IF recompute THEN op ELSE NoOp
    /\ depsChanged' = FALSE
    /\ UNCHANGED <<thrown, added, tab2, authVars>>

\* variant of FlushEffectsSaveFails in which the error escapes the save effect
FlushEffectsSaveFails_Uncaught ==
    /\ pc = "effects"
    /\ state.isInitialized
    /\ pc' = "idle"
    /\ op' = NoOp
    /\ depsChanged' = FALSE
    /\ thrown' = "QuotaExceededError"
    /\ UNCHANGED <<state, storage, added, tab2, authVars>>

\* FlushEffects of a render whose localStorage.setItem throws: the catch
\* block of the save effect logs the error, and storage keeps its value
FlushEffectsSaveFails ==
    /\ pc = "effects"
    /\ state.isInitialized
    /\ state' = IF depsChanged THEN CALCULATE_SUMMARY(state) ELSE state
    /\ pc' = IF depsChanged THEN "effects" ELSE "idle"
    /\ op' = IF depsChanged THEN op ELSE NoOp
    /\ depsChanged' = FALSE
    /\ UNCHANGED <<storage, thrown, added, tab2, authVars>>

\* a dispatch from an event handler: the reduced state is committed and its
\* effects are pending
Commit(s, name, hit, quantity) ==
    /\ pc = "idle"
    /\ state' = s
    /\ pc' = "effects"
    /\ depsChanged' = TRUE
    /\ op' = [name |-> name, hit |-> hit, quantity |-> quantity]
    /\ thrown' = NoThrow
    /\ UNCHANGED storage

----------------------------------------------------------------------------
(* Cart utility functions of CartProvider *)

\* `${item.productId}-${item.variant?.id || 'default'}`
ItemId(item) ==
    item.productId \o "-" \o
        (IF item.variant = <<>> \/ item.variant[1].id = "" THEN "default"
         ELSE item.variant[1].id)

CartItemOf(item) ==
    [id |-> ItemId(item), productId |-> item.productId, variant |-> item.variant,
     price |-> item.price, product |-> item.product, quantity |-> item.quantity,
     total |-> item.quantity * UnitPriceOf(item.variant, item.price)]

\* exploration bound: addItem calls are followed while the quantities they
\* produce stay between -1 and MaxQty
QuantitiesWithin(items) ==
    \A i \in 1..Len(items) : items[i].quantity \in (0 - 1)..MaxQty

AddItemCall(item) ==
    LET s == ADD_ITEM(state, CartItemOf(item))
    IN  /\ QuantitiesWithin(s.items)
        /\ Commit(s, "addItem", HasPair(state.items, PairOf(item)), item.quantity)

addItem(item) == AddItemCall(item) /\ UNCHANGED <<added, tab2, authVars>>

removeItem(itemId) ==
    /\ Commit(REMOVE_ITEM(state, itemId), "removeItem", HasId(state.items, itemId), 0)
    /\ UNCHANGED <<added, tab2, authVars>>

updateQuantity(itemId, quantity) ==
    /\ Commit(UPDATE_QUANTITY(state, [id |-> itemId, quantity |-> quantity]),
              "updateQuantity", HasId(state.items, itemId), quantity)
    /\ UNCHANGED <<added, tab2, authVars>>

clearCart ==
    /\ Commit(CLEAR_CART(state), "clearCart", state.items # <<>>, 0)
    /\ UNCHANGED <<added, tab2, authVars>>

applyDiscount(discount) ==
    /\ Commit(APPLY_DISCOUNT(state, discount), "applyDiscount",
              HasCode(state.discounts, discount.code), 0)
    /\ UNCHANGED <<added, tab2, authVars>>

removeDiscount(code) ==
    /\ Commit(REMOVE_DISCOUNT(state, code), "removeDiscount",
              HasCode(state.discounts, code), 0)
    /\ UNCHANGED <<added, tab2, authVars>>

setShippingMethod(shipping) ==
    /\ Commit(SET_SHIPPING(state, shipping), "setShippingMethod",
              state.shipping # <<>>, 0)
    /\ UNCHANGED <<added, tab2, authVars>>

\* variant of SyncDispatches without the finally block
SyncDispatches_NoFinally(s) == SET_LOADING(s, TRUE)

\* the actions syncWithServer dispatches, reduced in order: the try block
\* completes (console.log), the catch block is not entered
SyncDispatches(s) == SET_LOADING(SET_LOADING(s, TRUE), FALSE)

\* the body runs to its end without awaiting anything; items, discounts and
\* shipping keep their identity, so only the save effect is pending
syncWithServer ==
    /\ pc = "idle"
    /\ state' = SyncDispatches(state)
    /\ pc' = "effects"
    /\ depsChanged' = FALSE
    /\ op' = [name |-> "syncWithServer", hit |-> FALSE, quantity |-> 0]
    /\ thrown' = NoThrow
    /\ UNCHANGED <<storage, added, tab2, authVars>>

----------------------------------------------------------------------------
(* Safe wrappers of useCartEnhanced *)

\* variant of DiscountRejection without the percentage cap
DiscountRejection_NoCap(s, discount) ==
    IF HasCode(s.discounts, discount.code) THEN "Discount code already applied"
    ELSE IF discount.value <= 0 THEN "Discount value must be greater than 0"
    ELSE NoThrow

\* the Error thrown inside the try block of applyDiscountSafely, if any
DiscountRejection(s, discount) ==
    IF HasCode(s.discounts, discount.code) THEN "Discount code already applied"
    ELSE IF discount.value <= 0 THEN "Discount value must be greater than 0"
    ELSE IF discount.type = "percentage" /\ discount.value > 100
         THEN "Percentage discount cannot exceed 100%"
    ELSE NoThrow

\* catch (error) { cart.cart.error = error.message }: the state object of the
\* current render is assigned in place, nothing is dispatched or rendered
Caught(message) ==
    /\ pc = "idle"
    /\ state' = [state EXCEPT !.error = message]
    /\ thrown' = NoThrow
    /\ UNCHANGED <<storage, pc, depsChanged, op, added, tab2, authVars>>

applyDiscountSafely(discount) ==
    LET rejection == DiscountRejection(state, discount)
    IN  IF rejection = NoThrow
        THEN applyDiscount(discount)
        ELSE Caught(rejection)

\* cart.cart.items.find(i => i.id === itemId); called when there is one
Find(items, itemId) == items[FindIndex(items, LAMBDA item : item.id = itemId)]

DefaultMaxQuantity == 999

\* item.variant?.inventory || item.product.inventory.quantity || 999
MaxQuantityOf(item) ==
    OrElse(IF item.variant = <<>> THEN 0 ELSE item.variant[1].inventory,
           OrElse(item.product.inventory.quantity, DefaultMaxQuantity))

\* variant of QuantityRejection without the stock check
QuantityRejection_NoStockCheck(s, itemId, quantity) ==
    IF quantity < 0 THEN "Quantity cannot be negative"
    ELSE IF ~HasId(s.items, itemId) THEN "Item not found in cart"
    ELSE NoThrow

\* the Error thrown inside the try block of updateQuantitySafely, if any
QuantityRejection(s, itemId, quantity) ==
    IF quantity < 0 THEN "Quantity cannot be negative"
    ELSE IF ~HasId(s.items, itemId) THEN "Item not found in cart"
    ELSE IF quantity = 0 THEN NoThrow
    ELSE IF quantity > MaxQuantityOf(Find(s.items, itemId))
         THEN "Only " \o ToString(MaxQuantityOf(Find(s.items, itemId)))
                      \o " items available in stock"
    ELSE NoThrow

updateQuantitySafely(itemId, quantity) ==
    LET rejection == QuantityRejection(state, itemId, quantity)
    IN  IF rejection # NoThrow THEN Caught(rejection)
        ELSE IF quantity = 0 THEN removeItem(itemId)
        ELSE updateQuantity(itemId, quantity)

removeItemSafely(itemId) ==
    IF ~HasId(state.items, itemId)
    THEN Caught("Item not found in cart")
    ELSE removeItem(itemId)

\* the Error thrown inside the try block of addItemSafely, if any
AddRejection(item) ==
    IF item.quantity <= 0 THEN "Quantity must be greater than 0"
    ELSE IF ~item.product.isActive THEN "Product is not available"
    ELSE IF ~(\/ item.product.isInStock
              \/ item.variant # <<>> /\ item.variant[1].inventory > 0)
         THEN "Product is out of stock"
    ELSE NoThrow

addItemSafely(item) ==
    LET rejection == AddRejection(item)
    IN  IF rejection = NoThrow
        THEN addItem(item)
        ELSE Caught(rejection)

clearCartSafely ==
    IF state.items = <<>>
    THEN Caught("Cart is already empty")
    ELSE clearCart

----------------------------------------------------------------------------

Next ==
    \/ Mount
    \/ FlushEffects
    \/ \E item \in Payloads : addItem(item)
    \/ \E itemId \in ItemIds : removeItem(itemId)
    \/ \E itemId \in ItemIds, quantity \in NewQuantities : updateQuantity(itemId, quantity)
    \/ clearCart
    \/ \E discount \in Discounts : applyDiscount(discount)
    \/ \E code \in Codes : removeDiscount(code)
    \/ \E shipping \in Shippings : setShippingMethod(shipping)
    \/ syncWithServer

Spec == Init /\ [][Next]_vars

----------------------------------------------------------------------------
(* A session of a component that uses useCartEnhanced: discounts are entered *)
(* through applyDiscountSafely; the cart loaded at startup can be emptied    *)

NextEnhanced ==
    \/ Mount
    \/ FlushEffects
    \/ \E discount \in EnteredDiscounts : applyDiscountSafely(discount)
    \/ \E code \in Codes : removeDiscount(code)
    \/ \E shipping \in Shippings : setShippingMethod(shipping)
    \/ \E itemId \in ItemIds : removeItem(itemId)
    \/ clearCart

SpecEnhanced == Init /\ [][NextEnhanced]_vars

----------------------------------------------------------------------------
(* A session in which the cart is changed by addItem only, with the history *)
(* of the quantities passed for each (productId, variantId)                 *)

addItemRecorded(item) ==
    LET pair == PairOf(item)
        present == HasPair(state.items, pair)
    IN  /\ AddItemCall(item)
        /\ present /\ added[pair] # <<>> => added[pair][2] < MaxAdds
        /\ added' = [added EXCEPT ![pair] =
                        IF ~present THEN <<item.quantity, 1>>
                        ELSE IF @ = <<>> THEN <<>>
                        ELSE <<@[1] + item.quantity, @[2] + 1>>]
        /\ UNCHANGED <<tab2, authVars>>

NextAdds ==
    \/ Mount
    \/ FlushEffects
    \/ \E item \in Payloads : addItemRecorded(item)

SpecAdds == Init /\ [][NextAdds]_vars

----------------------------------------------------------------------------
(* The provider driven with stacks of discounts of every type *)

\* exploration bound: at most MaxStack discounts are held at once
applyDiscountStacked(discount) ==
    /\ Len(APPLY_DISCOUNT(state, discount).discounts) <= MaxStack
    /\ applyDiscount(discount)

NextSummary ==
    \/ Mount
    \/ FlushEffects
    \/ \E item \in Payloads : item.quantity >= 1 /\ addItem(item)
    \/ \E discount \in StackableDiscounts : applyDiscountStacked(discount)
    \/ \E discount \in StackableDiscounts : removeDiscount(discount.code)
    \/ \E shipping \in Shippings : setShippingMethod(shipping)

SpecSummary == Init /\ [][NextSummary]_vars

----------------------------------------------------------------------------
(* Sessions: the page is left and opened again over the same storage *)

\* a fresh CartProvider is constructed; localStorage outlives the page
Reload ==
    /\ pc \in {"idle", "effects"}
    /\ state' = initialState
    /\ pc' = "mount"
    /\ depsChanged' = FALSE
    /\ op' = NoOp
    /\ thrown' = NoThrow
    /\ UNCHANGED <<storage, added, tab2, authVars>>

NextSessions ==
    \/ Mount
    \/ FlushEffects
    \/ Reload
    \/ \E discount \in EnteredDiscounts : applyDiscountSafely(discount)
    \/ \E code \in Codes : removeDiscount(code)
    \/ \E shipping \in Shippings : setShippingMethod(shipping)
    \/ clearCart

SpecSessions == Init /\ [][NextSessions]_vars

----------------------------------------------------------------------------
(* The provider over a storage that may refuse to be written *)

NextQuota ==
    \/ Mount
    \/ FlushEffects
    \/ FlushEffectsSaveFails
    \/ \E discount \in Discounts : applyDiscount(discount)
    \/ \E code \in Codes : removeDiscount(code)
    \/ \E shipping \in Shippings : setShippingMethod(shipping)
    \/ clearCart

SpecQuota == Init /\ [][NextQuota]_vars

----------------------------------------------------------------------------
(* Two tabs over the same localStorage key.  Neither provider listens to    *)
(* storage events: each reads the key when it mounts and writes it in its   *)
(* save effect.                                                             *)

Mount2 ==
    /\ tab2.pc = "mount"
    /\ LET payload == IF storage.kind = "json" THEN storage.value
                      ELSE ToObject(initialState)
           s1 == SET_LOADING(tab2.state, TRUE)
           s2 == INITIALIZE_CART(s1, payload)
       IN  tab2' = [state |-> SET_LOADING(s2, FALSE), pc |-> "effects",
                    depsChanged |-> TRUE]
    /\ storage' = IF tab2.state.isInitialized THEN Saved(tab2.state) ELSE storage
    /\ UNCHANGED <<state, pc, depsChanged, op, thrown, added, authVars>>

\* variant of FlushEffects2 whose save keeps the stored discounts and
\* shipping and writes its own items and summary beside them
FlushEffects2_Merge ==
    /\ tab2.pc = "effects"
    /\ LET recompute == tab2.depsChanged /\ tab2.state.isInitialized
           merged == IF storage.kind = "json"
                     THEN [tab2.state EXCEPT
                             !.discounts = storage.value.discounts,
                             !.shipping = IF "shipping" \in DOMAIN storage.value
                                          THEN <<storage.value.shipping>> ELSE <<>>]
                     ELSE tab2.state
       IN  /\ storage' = IF tab2.state.isInitialized THEN Saved(merged) ELSE storage
           /\ tab2' = [state |-> IF recompute THEN CALCULATE_SUMMARY(tab2.state)
                                  ELSE tab2.state,
                        pc |-> IF recompute THEN "effects" ELSE "idle",
                        depsChanged |-> FALSE]
    /\ UNCHANGED <<state, pc, depsChanged, op, thrown, added, authVars>>

FlushEffects2 ==
    /\ tab2.pc = "effects"
    /\ LET recompute == tab2.depsChanged /\ tab2.state.isInitialized
       IN  /\ storage' = IF tab2.state.isInitialized THEN Saved(tab2.state) ELSE storage
           /\ tab2' = [state |-> IF recompute THEN CALCULATE_SUMMARY(tab2.state)
                                  ELSE tab2.state,
                        pc |-> IF recompute THEN "effects" ELSE "idle",
                        depsChanged |-> FALSE]
    /\ UNCHANGED <<state, pc, depsChanged, op, thrown, added, authVars>>

Commit2(s) ==
    /\ tab2.pc = "idle"
    /\ tab2' = [state |-> s, pc |-> "effects", depsChanged |-> TRUE]
    /\ UNCHANGED <<state, storage, pc, depsChanged, op, thrown, added, authVars>>

applyDiscount2(discount) == Commit2(APPLY_DISCOUNT(tab2.state, discount))

clearCart2 == Commit2(CLEAR_CART(tab2.state))

NextTabs ==
    \/ Mount
    \/ FlushEffects
    \/ \E shipping \in Shippings : setShippingMethod(shipping)
    \/ clearCart
    \/ Mount2
    \/ FlushEffects2
    \/ \E discount \in Discounts : applyDiscount2(discount)
    \/ clearCart2

SpecTabs == Init /\ [][NextTabs]_vars

----------------------------------------------------------------------------
(* The quantity and removal wrappers over carts whose items carry stock *)

\* CartItem with the stock of its product and, if any, of its variant
StockedItem(variant, productStock) ==
    LET item == [productId |-> "a", variant |-> variant, price |-> 20,
                 product |-> [shipping |-> Weight(2),
                              inventory |-> [quantity |-> productStock]],
                 quantity |-> 1]
    IN  [id |-> ItemId(item), productId |-> item.productId, variant |-> item.variant,
         price |-> item.price, product |-> item.product, quantity |-> item.quantity,
         total |-> item.quantity * UnitPriceOf(item.variant, item.price)]

StockedVariant(stock) == <<[id |-> "v", price |-> 2, inventory |-> stock]>>

\* carts written by an earlier session
StockedCarts ==
    LET Cart(items, discounts, shipping) ==
            [initialState EXCEPT
                !.items = items, !.discounts = discounts, !.shipping = shipping,
                !.summary = calculateCartSummary(items, discounts, shipping),
                !.isInitialized = TRUE]
    IN  { Cart(<<StockedItem(<<>>, 2), StockedItem(StockedVariant(1), 2)>>,
               <<[code |-> "SAVE", type |-> "percentage", value |-> 10]>>,
               <<[method |-> "standard", cost |-> 5, estimatedDays |-> 3]>>),
          Cart(<<StockedItem(StockedVariant(0), 3)>>, <<>>, <<>>),
          Cart(<<StockedItem(StockedVariant(0), 0)>>, <<>>, <<>>) }

\* quantities handed to updateQuantitySafely
SafeQuantities == {-1, 0, 1, 2, 3, 4, 1000}

InitSafe ==
    /\ state = initialState
    /\ storage \in { Saved(cart) : cart \in StockedCarts }
    /\ pc = "mount"
    /\ depsChanged = FALSE
    /\ op = NoOp
    /\ thrown = NoThrow
    /\ added = [pair \in Pairs |-> <<>>]
    /\ tab2 = [state |-> initialState, pc |-> "mount", depsChanged |-> FALSE]
    /\ AuthQuiet

NextSafe ==
    \/ Mount
    \/ FlushEffects
    \/ \E itemId \in ItemIds, quantity \in SafeQuantities :
            updateQuantitySafely(itemId, quantity)
    \/ \E itemId \in ItemIds : removeItemSafely(itemId)

SpecSafe == InitSafe /\ [][NextSafe]_vars

----------------------------------------------------------------------------
(* A session with products and variants whose ids meet in the line item id *)

\* no variant, a variant with id 'default', a variant with id '', and a '-'
\* in the product id against one in the variant id
CollidingPayloads ==
    { [productId |-> productId, variant |-> variant, price |-> 20,
       product |-> [shipping |-> <<>>], quantity |-> 1] :
        productId \in {"a"},
        variant \in {<<>>, <<[id |-> "default", price |-> 2]>>,
                     <<[id |-> "", price |-> 2]>>} }
    \cup { [productId |-> "a-b", variant |-> <<>>, price |-> 20,
            product |-> [shipping |-> <<>>], quantity |-> 1],
          [productId |-> "a", variant |-> <<[id |-> "b-default", price |-> 2]>>,
            price |-> 20, product |-> [shipping |-> <<>>], quantity |-> 1] }

CollidingIds == { ItemId(item) : item \in CollidingPayloads }

NextIds ==
    \/ Mount
    \/ FlushEffects
    \/ \E item \in CollidingPayloads : addItem(item)
    \/ \E itemId \in CollidingIds : removeItem(itemId)
    \/ \E itemId \in CollidingIds : updateQuantity(itemId, MaxQty)

SpecIds == Init /\ [][NextIds]_vars

----------------------------------------------------------------------------
(* The provider with its effects scheduled: React runs the passive effects *)
(* of every committed render                                               *)

NextFair ==
    \/ Mount
    \/ FlushEffects
    \/ \E item \in Payloads : item.quantity = 1 /\ addItem(item)
    \/ \E itemId \in ItemIds : removeItem(itemId)
    \/ \E itemId \in ItemIds : updateQuantity(itemId, MaxQty)
    \/ clearCart
    \/ \E discount \in Discounts : applyDiscount(discount)
    \/ \E code \in Codes : removeDiscount(code)
    \/ \E shipping \in Shippings : setShippingMethod(shipping)

SpecFair == Init /\ [][NextFair]_vars /\ WF_vars(FlushEffects)

----------------------------------------------------------------------------
(* A cart that is changed through the safe wrappers only *)

StockedProduct(productStock, isActive, isInStock) ==
    [shipping |-> <<>>, inventory |-> [quantity |-> productStock],
     isActive |-> isActive, isInStock |-> isInStock]

\* items handed to addItemSafely: one unit of a product with one in stock, of a
\* variant with one in stock, of an inactive product and of a variant that is
\* out of stock; no unit; and two units of the product with one in stock
SafePayloads ==
    { [productId |-> "a", variant |-> <<>>, price |-> 20,
       product |-> StockedProduct(1, TRUE, TRUE), quantity |-> quantity] :
            quantity \in {0, 1, 2} }
    \cup
    { [productId |-> "a", variant |-> StockedVariant(1), price |-> 20,
       product |-> StockedProduct(2, TRUE, FALSE), quantity |-> 1],
      [productId |-> "a", variant |-> <<>>, price |-> 20,
       product |-> StockedProduct(1, FALSE, TRUE), quantity |-> 1],
      [productId |-> "a", variant |-> StockedVariant(0), price |-> 20,
       product |-> StockedProduct(2, TRUE, FALSE), quantity |-> 1] }

NextWrappers ==
    \/ Mount
    \/ FlushEffects
    \/ \E item \in SafePayloads : addItemSafely(item)
    \/ \E itemId \in ItemIds, quantity \in SafeQuantities :
            updateQuantitySafely(itemId, quantity)
    \/ \E itemId \in ItemIds : removeItemSafely(itemId)
    \/ clearCartSafely

SpecWrappers == InitGuard /\ [][NextWrappers]_vars

----------------------------------------------------------------------------
(* Properties *)

Consistent(items, discounts, shipping, summary) ==
    summary = calculateCartSummary(items, discounts, shipping)

\* C1: in every committed state of an initialized store the summary is the
\* pure function of the items, discounts and shipping of that state, and so is
\* the summary of every snapshot written to storage.
SummaryAlwaysConsistent ==
    /\ state.isInitialized =>
          Consistent(state.items, state.discounts, state.shipping, state.summary)
    /\ storage.kind = "json" =>
          Consistent(storage.value.items, storage.value.discounts,
                     IF "shipping" \in DOMAIN storage.value
                     THEN <<storage.value.shipping>> ELSE <<>>,
                     storage.value.summary)

\* C2: no two line items carry the same (productId, variantId), and ADD_ITEM
\* of a pair that is present leaves the number of line items unchanged.
OneItemPerPair ==
    /\ \A i, j \in 1..Len(state.items) :
          PairOf(state.items[i]) = PairOf(state.items[j]) => i = j
    /\ \A item \in Payloads :
          HasPair(state.items, PairOf(item)) =>
             Len(ADD_ITEM(state, CartItemOf(item)).items) = Len(state.items)

\* a merging addItem has been committed into a cart of two line items
MergedIntoTwoItemCart ==
    /\ op.name = "addItem" /\ op.hit
    /\ Len(state.items) = 2

\* C3: after addItem calls for one (productId, variantId) that started from a
\* cart without the pair, the cart holds exactly one line item for the pair
\* and its quantity is the sum of the quantities passed.
QuantityIsSumOfAdds ==
    \A pair \in Pairs :
        added[pair] # <<>> =>
            LET at == {i \in 1..Len(state.items) : PairOf(state.items[i]) = pair}
            IN  /\ Cardinality(at) = 1
                /\ \A i \in at : state.items[i].quantity = added[pair][1]

\* three addItem calls for one pair have been made and their effects are done
ThreeAddsOfOnePair ==
    /\ pc = "idle"
    /\ \E pair \in Pairs : added[pair] # <<>> /\ added[pair][2] = 3

\* C4: every line item has total = quantity * unitPrice, the unit price being
\* the stored variant price when the item has a variant, else the stored price.
TotalIsQuantityTimesUnitPrice ==
    \A i \in 1..Len(state.items) :
        LET item == state.items[i]
            unitPrice == IF item.variant # <<>> THEN item.variant[1].price
                         ELSE item.price
        IN  item.total = item.quantity * unitPrice

\* C5: every line item has quantity >= 1.
QuantityAtLeastOne ==
    \A i \in 1..Len(state.items) : state.items[i].quantity >= 1

\* C6: UPDATE_QUANTITY with a quantity <= 0 gives the state that REMOVE_ITEM
\* of the same id gives, also after the summary is recomputed.
UpdateToZeroIsRemove ==
    \A itemId \in ItemIds, quantity \in {q \in NewQuantities : q <= 0} :
        LET u == UPDATE_QUANTITY(state, [id |-> itemId, quantity |-> quantity])
            r == REMOVE_ITEM(state, itemId)
        IN  /\ u.items = r.items
            /\ u.discounts = r.discounts
            /\ u.shipping = r.shipping
            /\ CALCULATE_SUMMARY(u).summary = CALCULATE_SUMMARY(r).summary

\* updateQuantity with a quantity <= 0 has removed a line item
UpdateToZeroRemoved ==
    /\ op.name = "updateQuantity" /\ op.hit /\ op.quantity <= 0
    /\ Len(state.items) = 1

\* C7: removeItem of an id that no line item carries changes no field of the
\* cart state, throws nothing, and the recomputation it triggers changes
\* nothing either.
RemoveAbsentChangesNothing ==
    [][\A itemId \in ItemIds :
          (removeItem(itemId) /\ ~HasId(state.items, itemId)) =>
              /\ state' = state
              /\ CALCULATE_SUMMARY(state') = state
              /\ thrown' = NoThrow]_vars

\* removeItem of an absent id has been committed on a cart that has an item,
\* a discount and an error recorded
RemovedAbsentId ==
    /\ op.name = "removeItem" /\ ~op.hit
    /\ state.items # <<>>
    /\ state.discounts # <<>>
    /\ state.error # NoError

IsApplied(discounts, discount) ==
    \E i \in 1..Len(discounts) : discounts[i] = discount

\* C8: discount codes are unique in the active discounts; APPLY_DISCOUNT of
\* an active code keeps the number of discounts and puts the new entry in
\* place of the old one; applying a discount twice equals applying it once.
OneDiscountPerCode ==
    /\ \A i, j \in 1..Len(state.discounts) :
          state.discounts[i].code = state.discounts[j].code => i = j
    /\ \A discount \in Discounts :
          LET once == APPLY_DISCOUNT(state, discount)
          IN  /\ HasCode(state.discounts, discount.code) =>
                    Len(once.discounts) = Len(state.discounts)
              /\ \A i \in 1..Len(once.discounts) :
                    once.discounts[i].code = discount.code =>
                        once.discounts[i] = discount
              /\ IsApplied(once.discounts, discount)
              /\ APPLY_DISCOUNT(once, discount) = once

\* applyDiscount of an active code has been committed and left two discounts,
\* the 150% SAVE discount last
ReplacedDiscount ==
    /\ op.name = "applyDiscount" /\ op.hit
    /\ Len(state.discounts) = 2
    /\ state.discounts[2] = [code |-> "SAVE", type |-> "percentage", value |-> 150]

\* the reasons for which the discount policy rejects a discount
RejectionReasons(discounts, discount) ==
    (IF HasCode(discounts, discount.code)
     THEN {"Discount code already applied"} ELSE {})
    \cup (IF discount.value <= 0
          THEN {"Discount value must be greater than 0"} ELSE {})
    \cup (IF discount.type = "percentage" /\ discount.value > 100
          THEN {"Percentage discount cannot exceed 100%"} ELSE {})

\* C9: applyDiscountSafely of a discount whose code is active, whose value is
\* <= 0 or which is a percentage above 100 changes nothing but cart.error,
\* which receives the reason; any other discount is applied; nothing is thrown.
SafeApplyRejectsOrApplies ==
    [][\A discount \in EnteredDiscounts :
          applyDiscountSafely(discount) =>
              /\ thrown' = NoThrow
              /\ IF RejectionReasons(state.discounts, discount) # {}
                 THEN /\ state'.items = state.items
                      /\ state'.discounts = state.discounts
                      /\ state'.shipping = state.shipping
                      /\ state'.summary = state.summary
                      /\ state'.error \in RejectionReasons(state.discounts, discount)
                 ELSE /\ state'.discounts = Append(state.discounts, discount)
                      /\ state'.error = state.error]_vars

\* a percentage above 100 has been rejected while no discount was active
RejectedPercentage ==
    /\ state.error = "Percentage discount cannot exceed 100%"
    /\ state.discounts = <<>>
    /\ pc = "idle"

HasFreeShipping(discounts) ==
    \E i \in 1..Len(discounts) : discounts[i].type = "free_shipping"

\* C10: whenever a free_shipping discount is active the shippingAmount of the
\* summary is 0, and whenever none is active (after its removal and the
\* recomputation) it is the selected shipping cost.
FreeShippingZeroesShipping ==
    /\ HasFreeShipping(state.discounts) => state.summary.shippingAmount = 0
    /\ (pc = "idle" /\ ~HasFreeShipping(state.discounts) /\ state.shipping # <<>>) =>
          state.summary.shippingAmount = state.shipping[1].cost * Scale

----------------------------------------------------------------------------
(* The summary against the written algorithm *)

RECURSIVE SumOfTotals(_)
SumOfTotals(items) ==
    IF items = <<>> THEN 0 ELSE Head(items).total + SumOfTotals(Tail(items))

RECURSIVE SumOfQuantities(_)
SumOfQuantities(items) ==
    IF items = <<>> THEN 0 ELSE Head(items).quantity + SumOfQuantities(Tail(items))

\* contribution of one discount to discountAmount, in units of 1/Scale
ContributionOf(discount, subtotal) ==
    IF discount.type = "percentage" THEN (subtotal * discount.value) \div 100
    ELSE IF discount.type = "fixed_amount"
         THEN (IF discount.value * Scale < subtotal THEN discount.value * Scale
               ELSE subtotal)
    ELSE 0

RECURSIVE SumOfContributions(_, _)
SumOfContributions(discounts, subtotal) ==
    IF discounts = <<>> THEN 0
    ELSE ContributionOf(Head(discounts), subtotal)
            + SumOfContributions(Tail(discounts), subtotal)

\* C11: once the effects of a render have run, the summary is the one of
\* the written algorithm: subtotal is the sum of the item totals, itemCount
\* the sum of the quantities, discountAmount the sum of the contributions of
\* the discounts (subtotal * value / 100, min(value, subtotal), or 0),
\* taxAmount 8% of subtotal - discountAmount, and total the taxable amount
\* plus tax plus shipping; a cart of 2 units at 20 with a 10% discount has
\* discountAmount 4, taxAmount 2.88 and total 38.88.
SummaryFollowsAlgorithm ==
    (pc = "idle" /\ state.isInitialized) =>
        LET subtotal == Scale * SumOfTotals(state.items)
            discountAmount == SumOfContributions(state.discounts, subtotal)
            taxable == subtotal - discountAmount
            freeShipping == \E i \in 1..Len(state.discounts) :
                                state.discounts[i].type = "free_shipping"
            shippingAmount == IF state.shipping = <<>> \/ freeShipping THEN 0
                              ELSE state.shipping[1].cost * Scale
        IN  /\ state.summary.subtotal = subtotal
            /\ state.summary.itemCount = SumOfQuantities(state.items)
            /\ state.summary.discountAmount = discountAmount
            /\ state.summary.taxAmount * 100 = taxable * 8
            /\ state.summary.shippingAmount = shippingAmount
            /\ state.summary.total = taxable + state.summary.taxAmount + shippingAmount
            /\ (/\ Len(state.items) = 1
                /\ state.items[1].total = 40
                /\ Len(state.discounts) = 1
                /\ state.discounts[1].type = "percentage"
                /\ state.discounts[1].value = 10
                /\ state.shipping = <<>>)
               => /\ state.summary.discountAmount * 1 = 4 * Scale
                  /\ state.summary.taxAmount * 100 = 288 * Scale
                  /\ state.summary.total * 100 = 3888 * Scale

\* a cart of two units at 20 under one 10% discount, summary recomputed
TwoAtTwentyLessTenPercent ==
    /\ pc = "idle"
    /\ Len(state.items) = 1
    /\ state.items[1].quantity = 2
    /\ state.items[1].total = 40
    /\ state.discounts = <<[code |-> "P10", type |-> "percentage", value |-> 10]>>
    /\ state.shipping = <<>>
    /\ state.summary.total * 100 = 3888 * Scale

----------------------------------------------------------------------------
(* Amounts under stacked discounts *)

\* C12: under any stack of discounts that applyDiscountSafely accepted
\* (distinct codes, value > 0, percentage at most 100) the taxable amount is
\* clamped at zero, so taxAmount and total are never negative, also when
\* discountAmount exceeds the subtotal.
AmountsNeverNegative ==
    /\ state.summary.taxAmount >= 0
    /\ state.summary.total >= 0

----------------------------------------------------------------------------
(* Loading at startup *)

\* C13: the cart is loaded from storage once, at startup; when the stored
\* value is absent or cannot be parsed the provider takes the empty initial
\* cart (no items, no discounts, no shipping, zero summary), is initialized,
\* has isLoading false, and nothing is thrown.
LoadOnceWithFallback ==
    [][ /\ (pc = "mount" /\ storage.kind # "json" /\ pc' # "mount") =>
            /\ state'.items = <<>>
            /\ state'.discounts = <<>>
            /\ state'.shipping = <<>>
            /\ \A field \in DOMAIN state'.summary : state'.summary[field] = 0
            /\ state'.isInitialized
            /\ ~state'.isLoading
            /\ state'.error = NoError
            /\ thrown' = NoThrow
        /\ (pc # "mount") => (pc' # "mount" /\ state'.isInitialized) ]_vars

\* the initialize effect has just run against a value that does not parse
FellBackFromGarbage ==
    /\ op.name = "mount"
    /\ pc = "effects"
    /\ storage = GarbageStorage
    /\ state.isInitialized
    /\ state.items = <<>>

----------------------------------------------------------------------------
(* Saving *)

\* C14: storage is written only from an initialized state, and then with
\* that state; once initialized, the effects of every committed state write
\* it, so that the provider at rest has its own state in storage; nothing is
\* written before the stored cart has been loaded.
SavedOnlyAndAlwaysOnceInitialized ==
    [][ /\ (storage' # storage) => (state.isInitialized /\ storage' = Saved(state))
        /\ (~state.isInitialized) => (storage' = storage)
        /\ (pc = "effects" /\ state.isInitialized) => (storage' = Saved(state))
        /\ (pc' = "idle" /\ state'.isInitialized) => (storage' = Saved(state')) ]_vars

\* the stored cart of an earlier session is still in storage when it has been
\* loaded and no effect of the loaded state has run yet
StoredCartSurvivedStartup ==
    /\ op.name = "mount"
    /\ op.hit
    /\ pc = "effects"
    /\ depsChanged
    /\ state.isInitialized
    /\ state.items # <<>>
    /\ storage = Saved(EarlierCart)

----------------------------------------------------------------------------
(* Clearing *)

\* C16: clearCart leaves no items, no discounts and no shipping in the one
\* state it commits, and after the recomputation that follows every field of
\* the summary is 0.
ClearCartEmptiesEverything ==
    (op.name = "clearCart") =>
        /\ state.items = <<>>
        /\ state.discounts = <<>>
        /\ state.shipping = <<>>
        /\ (~depsChanged) =>
                \A field \in DOMAIN state.summary : state.summary[field] = 0

\* a cart with items, a discount and a shipping method, still in storage as
\* it was saved, has just been cleared
ClearedFullCart ==
    /\ op.name = "clearCart"
    /\ op.hit
    /\ depsChanged
    /\ storage.kind = "json"
    /\ storage.value.items # <<>>
    /\ storage.value.discounts # <<>>
    /\ "shipping" \in DOMAIN storage.value
    /\ state.items = <<>>
    /\ state.discounts = <<>>
    /\ state.shipping = <<>>

----------------------------------------------------------------------------
(* Synchronisation stub *)

\* C17: syncWithServer changes nothing but isLoading: items, discounts,
\* shipping, summary and error are those of before, nothing is thrown,
\* isLoading is false when it has completed, and the cart operations are
\* available again once its effects have run.
SyncTouchesOnlyLoading ==
    [][ /\ (pc = "idle" /\ op'.name = "syncWithServer") =>
            /\ state'.items = state.items
            /\ state'.discounts = state.discounts
            /\ state'.shipping = state.shipping
            /\ state'.summary = state.summary
            /\ state'.error = state.error
            /\ ~state'.isLoading
            /\ thrown' = NoThrow
        /\ (op.name = "syncWithServer") =>
            /\ state' = state
            /\ pc' = "idle"
            /\ storage' = Saved(state) ]_vars

\* syncWithServer has just run on a cart with an item, a discount and a
\* shipping method
SyncedFullCart ==
    /\ op.name = "syncWithServer"
    /\ state.items # <<>>
    /\ state.discounts # <<>>
    /\ state.shipping # <<>>
    /\ state.summary.total > 0
    /\ ~state.isLoading

----------------------------------------------------------------------------
(* Round trip through storage *)

\* what a fresh provider holds after its initialize effect has read `stored`
LoadedFrom(stored) ==
    SET_LOADING(INITIALIZE_CART(SET_LOADING(initialState, TRUE), stored.value), FALSE)

\* C15: saving a state and loading the saved value in a fresh provider gives
\* the same items in the same order, the same discounts, shipping and
\* summary; the error of the saved state is not restored, and the loaded
\* state is initialized with isLoading false.  A provider that starts over a
\* stored cart holds exactly what loading that value gives.
SaveThenLoadReproduces ==
    [][ /\ state.isInitialized =>
            LET loaded == LoadedFrom(Saved(state))
            IN  /\ loaded.items = state.items
                /\ loaded.discounts = state.discounts
                /\ loaded.shipping = state.shipping
                /\ loaded.summary = state.summary
                /\ loaded.error = NoError
                /\ loaded.isInitialized
                /\ ~loaded.isLoading
        /\ (pc = "mount" /\ storage.kind = "json") => (state' = LoadedFrom(storage)) ]_vars

\* a later session has loaded a cart with an item, a discount and a shipping
\* method that a session before it saved
ReloadedFullCart ==
    /\ op.name = "mount"
    /\ op.hit
    /\ depsChanged
    /\ state.items # <<>>
    /\ state.discounts # <<>>
    /\ state.shipping # <<>>
    /\ state.summary.discountAmount > 0
    /\ state.error = NoError
    /\ storage # Saved(EarlierCart)

----------------------------------------------------------------------------
(* A save that fails *)

\* C18: when the effects of a render run and storage is not written, the
\* mutation of that render stays in the cart in memory, nothing is thrown,
\* the recomputation goes on as usual, and the cart operations and later
\* saves proceed.
FailedSaveKeepsCart ==
    [][ /\ (pc = "effects" /\ state.isInitialized /\ storage' # Saved(state)) =>
            /\ storage' = storage
            /\ state'.items = state.items
            /\ state'.discounts = state.discounts
            /\ state'.shipping = state.shipping
            /\ state'.error = state.error
            /\ state'.summary = (IF depsChanged
                                 THEN calculateCartSummary(state.items, state.discounts,
                                                           state.shipping)
                                 ELSE state.summary)
            /\ thrown' = NoThrow
            /\ pc' = (IF depsChanged THEN "effects" ELSE "idle")
        /\ (pc = "idle" /\ storage # Saved(state)) =>
            /\ ENABLED clearCart
            /\ (pc' = "effects" /\ op'.name # "none")
        /\ (storage' # storage) => (storage' = Saved(state)) ]_vars

\* the cart at rest holds a discount that storage does not have
UnsavedDiscountInMemory ==
    /\ pc = "idle"
    /\ state.isInitialized
    /\ state.discounts # <<>>
    /\ storage.kind = "json"
    /\ storage.value.discounts = <<>>
    /\ thrown = NoThrow

----------------------------------------------------------------------------
(* Two tabs *)

\* C19: with two providers on one storage key, every write of the key puts
\* there the whole snapshot of the one provider whose save effect runs, so
\* the stored value is always the snapshot of the provider that saved last
\* and never a mixture of the two carts.
StorageIsOneWholeSnapshot ==
    [][ (storage' # storage) =>
            \/ /\ pc = "effects"
               /\ state.isInitialized
               /\ storage' = Saved(state)
               /\ tab2' = tab2
            \/ /\ tab2.pc = "effects"
               /\ tab2.state.isInitialized
               /\ storage' = Saved(tab2.state)
               /\ state' = state ]_vars

\* both tabs are at rest with different carts; the first tab holds a shipping
\* method, the second a discount, and storage has the cart of the second
SecondTabSavedLast ==
    /\ pc = "idle"
    /\ tab2.pc = "idle"
    /\ state.items # <<>>
    /\ state.shipping # <<>>
    /\ state.discounts = <<>>
    /\ tab2.state.discounts # <<>>
    /\ tab2.state.shipping = <<>>
    /\ storage = Saved(tab2.state)
    /\ storage # Saved(state)

----------------------------------------------------------------------------
(* Rejections of the quantity and removal wrappers *)

\* the stock that limits an item: that of its variant if it has one in
\* stock, else that of its product, else 999
StockOf(item) ==
    IF item.variant # <<>> /\ item.variant[1].inventory # 0
    THEN item.variant[1].inventory
    ELSE IF item.product.inventory.quantity # 0
         THEN item.product.inventory.quantity
    ELSE 999

\* the reasons for which updateQuantitySafely rejects a call
QuantityRejectionReasons(items, itemId, quantity) ==
    (IF quantity < 0 THEN {"Quantity cannot be negative"} ELSE {})
    \cup (IF \A i \in 1..Len(items) : items[i].id # itemId
          THEN {"Item not found in cart"} ELSE {})
    \cup { "Only " \o ToString(StockOf(items[i])) \o " items available in stock" :
             i \in { j \in 1..Len(items) :
                        items[j].id = itemId /\ quantity > StockOf(items[j]) } }

\* C20: updateQuantitySafely with a negative quantity, an id that is not in
\* the cart or a quantity above the stock of the item, and removeItemSafely
\* with an id that is not in the cart, leave items, discounts, shipping and
\* summary as they are and put the reason in cart.error; nothing is thrown.
SafeQuantityAndRemovalReject ==
    [][ /\ \A itemId \in ItemIds, quantity \in SafeQuantities :
              (/\ updateQuantitySafely(itemId, quantity)
               /\ QuantityRejectionReasons(state.items, itemId, quantity) # {}) =>
                  /\ state'.items = state.items
                  /\ state'.discounts = state.discounts
                  /\ state'.shipping = state.shipping
                  /\ state'.summary = state.summary
                  /\ state'.error \in
                        QuantityRejectionReasons(state.items, itemId, quantity)
                  /\ thrown' = NoThrow
        /\ \A itemId \in ItemIds :
              (/\ removeItemSafely(itemId)
               /\ \A i \in 1..Len(state.items) : state.items[i].id # itemId) =>
                  /\ state'.items = state.items
                  /\ state'.discounts = state.discounts
                  /\ state'.shipping = state.shipping
                  /\ state'.summary = state.summary
                  /\ state'.error = "Item not found in cart"
                  /\ thrown' = NoThrow ]_vars

\* a quantity above the stock of the variant has been refused on a cart
\* with two items, a discount and a shipping method
RefusedAboveStock ==
    /\ pc = "idle"
    /\ state.error = "Only 1 items available in stock"
    /\ Len(state.items) = 2
    /\ state.discounts # <<>>
    /\ state.shipping # <<>>

----------------------------------------------------------------------------
(* Account lockout *)

\* C21: in every interleaving of login requests, once 5 failed attempts are
\* recorded for the account a lock is set, and a request that finds the
\* lock in force is answered 423 and gets no tokens, whatever its password.
LockedAfterFiveFailures ==
    /\ (admin.loginAttempts >= 5) => (admin.lockUntil # <<>>)
    /\ (response.status = 423) => (response.data = <<>>)

----------------------------------------------------------------------------
(* Responses of the login endpoint *)

\* C22: the endpoint answers with a token pair only to a request whose email
\* is that of an admin whose account it found not locked and active and
\* whose password matches; every other answer has success false and no
\* tokens, with status 400 for a missing field, 401 for an unknown email, an
\* inactive account or a wrong password, 423 for a locked account and 500
\* for an internal failure; the counter of failed attempts grows only on a
\* wrong password.
TokensOnlyForValidLogin ==
    [][ /\ \A request \in LoginRequests :
              LoginReceive(request.email, request.password, request.dbUp) =>
                  /\ admin' = admin
                  /\ (logins' # logins) =>
                        /\ request.dbUp
                        /\ request.email = admin.email
                        /\ request.password # ""
                        /\ ~(admin.lockUntil # <<>> /\ admin.lockUntil[1] > now)
                        /\ admin.isActive
                        /\ response' = response
                  /\ (logins' = logins) =>
                        /\ ~response'.success
                        /\ response'.data = <<>>
                        /\ response'.status \in {400, 401, 423, 500}
                        /\ (response'.status = 400) => (request.email = "" \/ request.password = "")
                        /\ (response'.status = 401) =>
                                (request.email # admin.email \/ ~admin.isActive)
                        /\ (response'.status = 423) =>
                                (admin.lockUntil # <<>> /\ admin.lockUntil[1] > now)
                        /\ (response'.status = 500) => ~request.dbUp
        /\ \A login \in BagToSet(logins) :
              LoginComplete(login) =>
                  /\ login.doc.email = admin.email
                  /\ login.doc.isActive
                  /\ IF login.password = "right"
                     THEN /\ response'.status = 200
                          /\ response'.success
                          /\ Len(response'.data) = 1
                          /\ response'.data[1].tokens.accessToken.payload.email
                                = admin.email
                          /\ response'.data[1].tokens.refreshToken.payload.email
                                = admin.email
                          /\ admin'.loginAttempts = 0
                     ELSE /\ response'.status = 401
                          /\ ~response'.success
                          /\ response'.data = <<>>
        /\ (admin'.loginAttempts > admin.loginAttempts) =>
              /\ response'.status = 401
              /\ \E login \in BagToSet(logins) :
                    /\ login.password = "wrong"
                    /\ logins' = logins (-) SetToBag({login})
        /\ (response'.data # <<>>) => (response'.status = 200) ]_vars

\* a login has succeeded after failed attempts had been counted
LoggedInAfterFailures ==
    /\ response.status = 200
    /\ response.success
    /\ response.data # <<>>
    /\ admin.loginAttempts = 0
    /\ admin.lastLogin # <<>>
    /\ \E login \in BagToSet(logins) : login.doc.loginAttempts > 0


\* C23: a step that ends an authenticated session idle for longer than
\* sessionTimeout, other than logout(), leaves the state unauthenticated with no
\* user, no tokens and the error 'Session expired. Please log in again.', and
\* the storage without tokens and user data; and an authenticated session idle
\* for longer than sessionTimeout is eventually timed out, unless activity or
\* a logout comes first.
IdleTooLong ==
    /\ auth.isAuthenticated
    /\ auth.lastActivity # <<>>
    /\ now - auth.lastActivity[1] > SessionTimeoutMinutes

TimedOut ==
    /\ ~auth.isAuthenticated
    /\ auth.user = <<>>
    /\ auth.tokens = [accessToken |-> <<>>, refreshToken |-> <<>>]
    /\ auth.error = "Session expired. Please log in again."
    /\ authStorage.accessToken = <<>>
    /\ authStorage.refreshToken = <<>>
    /\ authStorage.userData = <<>>

IdleSessionsTimeOut ==
    /\ [][(IdleTooLong /\ ~auth'.isAuthenticated /\ ~loggedOut') => TimedOut']_vars
    /\ IdleTooLong ~> (TimedOut \/ loggedOut \/ (auth.isAuthenticated /\ ~IdleTooLong))

SessionExpired == TimedOut /\ now >= 40 /\ refreshCall = <<>>

\* C26: once logout() has run, and until a login succeeds, neither the auth
\* state nor the storage holds an access token.
NoAccessTokenAfterLogout ==
    loggedOut => (auth.tokens.accessToken = <<>> /\ authStorage.accessToken = <<>>)

\* C24: a request reaches the wrapped handler at most once, and exactly when its
\* Authorization header is 'Bearer <token>' with an access token that verifies
\* and is not expired and, for requirePermission and requireRole, hasPermission
\* or hasRole holds for the payload; a request without such a token is answered
\* 401 and one with a token but without the permission or role 403.
HandlerOnlyForAuthorizedRequests ==
    LET header  == guarded.header
        bearer  == /\ Len(header) = 3
                   /\ header[1] = Word("Bearer")
                   /\ header[2] = Space
                   /\ header[3].kind = "jwt"
        token   == header[3].token
        valid   == bearer /\ token.secret = "access" /\ guarded.at < token.exp
        allowed == /\ valid
                   /\ guarded.wrapper = "requirePermission" =>
                            hasPermission(token.payload.permissions, guarded.required)
                   /\ guarded.wrapper = "requireRole" =>
                            hasRole(token.payload.role, guarded.required)
    IN  guarded.wrapper # "none" =>
            /\ guarded.invoked \in {0, 1}
            /\ guarded.invoked = 1 <=> allowed
            /\ ~valid => guarded.status = 401
            /\ (valid /\ ~allowed) => guarded.status = 403
            /\ allowed => guarded.status = 0

ModeratorPassedRoleCheck ==
    /\ guarded.wrapper = "requireRole"
    /\ guarded.required = "admin"
    /\ guarded.invoked = 1
    /\ guarded.user # <<>>
    /\ guarded.user[1].role = "moderator"
    /\ guarded.at = 10

\* C27: the access token that refreshAccessToken returns carries the id, email,
\* role and permissions of the access token that generateTokenPair issued to
\* the user.
RefreshKeepsPrivileges ==
    session.refreshed # <<>> =>
        session.refreshed[1].payload = session.issued[1].accessToken.payload

\* C25: at most one mongoose.connect is in flight; once a connection is cached
\* it stays the cached one, no further connect is made and every call that
\* returns returns it; and once the calls that awaited a failed attempt have
\* run, cached.promise is no longer the failed promise, so that the next call
\* connects again.
OneCachedConnection ==
    /\ [](Cardinality({id \in DOMAIN promises : promises[id] = "pending"}) <= 1)
    /\ []((Drained /\ cached.promise # <<>>) =>
                promises[cached.promise[1]] # "rejected")
    /\ [][cached.conn # <<>> =>
            /\ cached'.conn = cached.conn
            /\ Len(promises') = Len(promises)
            /\ returned' # returned => returned'.conn = cached.conn]_vars
    /\ [][(/\ cached.conn = <<>>
            /\ cached.promise = <<>>
            /\ BagCardinality(calls') > BagCardinality(calls)) =>
            /\ Len(promises') = Len(promises) + 1
            /\ cached'.promise = <<Len(promises')>>]_vars

ReconnectedAfterFailure ==
    /\ Len(promises) = 2
    /\ promises[1] = "rejected"
    /\ cached.conn = <<2>>
    /\ returned = [kind |-> "cached", conn |-> <<2>>]

\* C28: no two line items of the cart have the same id.
LineItemIdsUnique ==
    \A i, j \in 1..Len(state.items) :
        state.items[i].id = state.items[j].id => i = j

\* C29: once the store is initialized, the effects pending after a mutation
\* run out: the store comes to rest with the summary computed from its items,
\* discounts and shipping and with the stored snapshot equal to the state; a
\* recomputation changes the summary only and the effects of its render end
\* the chain.
Quiescent ==
    /\ pc = "idle"
    /\ state.summary = calculateCartSummary(state.items, state.discounts, state.shipping)
    /\ storage = Saved(state)

EffectChainTerminates ==
    /\ (pc = "effects" /\ state.isInitialized) ~> Quiescent
    /\ [][(pc = "effects" /\ pc' = "effects") =>
            /\ state' = [state EXCEPT !.summary = state'.summary]
            /\ ~depsChanged']_vars
    /\ [][(pc = "effects" /\ ~depsChanged) => (pc' = "idle" /\ Quiescent')]_vars

CameToRestWithDiscount ==
    /\ Quiescent
    /\ Len(state.items) = 2
    /\ state.discounts # <<>>
    /\ state.summary.discountAmount > 0

\* C30: no line item has a quantity above its maximum available quantity
\* (variant inventory if set, else product inventory quantity, else 999).
QuantityWithinStock ==
    \A i \in 1..Len(state.items) :
        state.items[i].quantity <= MaxQuantityOf(state.items[i])
====
